---------------------------- MODULE Spec2Model ----------------------------
(***************************************************************************)
(* Model of the kernelcoin web wallet: its key-derivation core            *)
(* (wallet.go: GenerateNewWallet and GenerateWalletFromMnemonic, together  *)
(* with the library calls they make to go-bip39, btcd hdkeychain and       *)
(* btcutil) and the HTTP handlers and JSON-RPC client around it (main.go,  *)
(* rpc_client.go).                                                         *)
(*                                                                         *)
(* Texts are sequences: a mnemonic is a sequence of tokens (a word of the  *)
(* BIP39 list is its index 0..2047, any larger number is a word that is    *)
(* not in the list, SP is one space character); every other text is a      *)
(* sequence of one-character strings.  Byte strings are sequences over     *)
(* 0..255 of the width the libraries give them.                            *)
(*                                                                         *)
(* Three things are scaled.  The hash functions (SHA-256,                 *)
(* PBKDF2-HMAC-SHA512, HMAC-SHA512, RIPEMD160, the bech32 checksum) are    *)
(* replaced by one deterministic mixing function with a domain tag, and    *)
(* the secp256k1 scalar field by the integers below CurveOrder, so that    *)
(* the rare outcomes of key derivation (an unusable seed, an invalid       *)
(* child) are outcomes some inputs of the model produce.  The float64      *)
(* amounts of the balance keep their rounding but have a significand of    *)
(* MantissaBits bits.                                                      *)
(***************************************************************************)
EXTENDS Integers, Sequences, FiniteSets, TLC

(***************************************************************************)
(* Bounds of the model.                                                    *)
(***************************************************************************)
\* number of calls of the entry points that can be in flight at once
MaxCalls == 2
\* number of sample values the entropy source can return
MaxEntropy == 3

(***************************************************************************)
(* Bytes, bits and the stand-in for the hash functions.                    *)
(***************************************************************************)
Min(a, b) == IF a < b THEN a ELSE b

Pow2(n) == 2 ^ n

\* big-endian bits of the low `width` bits of v
IntToBits(v, width) == [i \in 1..width |-> (v \div Pow2(width - i)) % 2]

\* the number whose big-endian bits are `bits` (at most 30 of them)
BitsToInt(bits) ==
    LET F[i \in 0..Len(bits)] == IF i = 0 THEN 0 ELSE 2 * F[i - 1] + bits[i]
    IN F[Len(bits)]

\* a byte string as a bit string, most significant bit first
BytesToBits(bs) ==
    [i \in 1..(8 * Len(bs)) |-> (bs[((i - 1) \div 8) + 1] \div Pow2(7 - ((i - 1) % 8))) % 2]

\* a bit string (a multiple of 8 long) as a byte string
BitsToBytes(bits) ==
    [j \in 1..(Len(bits) \div 8) |-> BitsToInt(SubSeq(bits, 8 * j - 7, 8 * j))]

\* the affine map h |-> (a * h + b) % 32749 that absorbing s[lo..hi], one
\* number after the other by h |-> (31 * h + s[i] + 2) % 32749, amounts to
RECURSIVE Absorb(_, _, _)
Absorb(s, lo, hi) ==
    IF lo > hi THEN [a |-> 1, b |-> 0]
    ELSE IF lo = hi THEN [a |-> 31, b |-> (s[lo] + 2) % 32749]
    ELSE LET mid == (lo + hi) \div 2
             l == Absorb(s, lo, mid)
             r == Absorb(s, mid + 1, hi)
         IN [a |-> (l.a * r.a) % 32749, b |-> (l.b * r.a + r.b) % 32749]

\* the state of the mixing function, started at `tag`, after absorbing the
\* numbers of s
Mix(tag, s) ==
    LET m == Absorb(s, 1, Len(s))
    IN (tag * m.a + m.b) % 32749

\* n output bytes squeezed from a mixing state
DigestBytes(h, n) == [i \in 1..n |-> ((h + i) * ((h % 251) + 3) + i * i) % 256]

\* crypto/sha256
SHA256(bs) == DigestBytes(Mix(101, bs), 32)

\* chainhash.DoubleHashB
DoubleSHA256(bs) == SHA256(SHA256(bs))

\* btcutil.Hash160: RIPEMD160(SHA256(x)), 20 bytes
Hash160(bs) == DigestBytes(Mix(103, SHA256(bs)), 20)


\* the characters of a text as numbers, for hashing
Ord(ch) ==
    LET abc == <<"a","b","c","d","e","f","g","h","i","j","k","l","m",
                 "n","o","p","q","r","s","t","u","v","w","x","y","z",
                 "0","1","2","3","4","5","6","7","8","9"," ">>
    IN IF \E i \in 1..Len(abc) : abc[i] = ch
       THEN CHOOSE i \in 1..Len(abc) : abc[i] = ch
       ELSE 0

OrdAll(text) == [i \in 1..Len(text) |-> Ord(text[i])]

(***************************************************************************)
(* github.com/tyler-smith/go-bip39, as called at wallet.go 48, 54, 60,     *)
(* 142 and 147.                                                            *)
(***************************************************************************)
\* one space character of a mnemonic text
SP == 0 - 1

\* the tokens that are words of the 2048-word list (wordMap's keys)
WordList == 0..2047

\* a word that is not in the list
NotAWord == 2048

\* strings.Fields: the words of a text, split at runs of spaces (the texts of
\* the model put at least one space between two words)
Fields(text) == SelectSeq(text, LAMBDA t : t # SP)

\* strings.Join(words, " ")
Join(words) ==
    [i \in 1..(IF Len(words) = 0 THEN 0 ELSE 2 * Len(words) - 1) |->
        IF i % 2 = 1 THEN words[(i + 1) \div 2] ELSE SP]

\* validateEntropyBitSize: a multiple of 32 between 128 and 256
ValidEntropyBitSize(bitSize) ==
    /\ bitSize % 32 = 0
    /\ bitSize >= 128
    /\ bitSize <= 256

\* computeChecksum / addChecksum: the first len/32 bits of SHA256(entropy)
ChecksumBits(entropy) ==
    LET n == (8 * Len(entropy)) \div 32
    IN IntToBits(SHA256(entropy)[1] \div Pow2(8 - n), n)

\* a mnemonic whose checksum bits are left zero
NewMnemonicNoChecksum(entropy) ==
    IF ~ValidEntropyBitSize(8 * Len(entropy))
    THEN [err |-> "ErrEntropyLengthInvalid", mnemonic |-> <<>>]
    ELSE LET bits == BytesToBits(entropy)
                      \o [i \in 1..Len(ChecksumBits(entropy)) |-> 0]
             sentenceLength == Len(bits) \div 11
             words == [i \in 1..sentenceLength |->
                          BitsToInt(SubSeq(bits, 11 * i - 10, 11 * i))]
         IN [err |-> "nil", mnemonic |-> Join(words)]

\* bip39.NewMnemonic(entropy): entropy and checksum cut into 11-bit groups,
\* each group the index of a word, the words joined by single spaces
NewMnemonic(entropy) ==
    IF ~ValidEntropyBitSize(8 * Len(entropy))
    THEN [err |-> "ErrEntropyLengthInvalid", mnemonic |-> <<>>]
    ELSE LET bits == BytesToBits(entropy) \o ChecksumBits(entropy)
             sentenceLength == Len(bits) \div 11
             words == [i \in 1..sentenceLength |->
                          BitsToInt(SubSeq(bits, 11 * i - 10, 11 * i))]
         IN [err |-> "nil", mnemonic |-> Join(words)]

\* splitMnemonicWords: 12, 15, 18, 21 or 24 words
ValidWordCount(numOfWords) ==
    /\ numOfWords % 3 = 0
    /\ numOfWords >= 12
    /\ numOfWords <= 24

\* bip39.EntropyFromMnemonic(mnemonic): the entropy the words encode, or the
\* first of: wrong word count, a word not in the list, checksum mismatch
EntropyFromMnemonic(mnemonic) ==
    LET words == Fields(mnemonic)
        n == Len(words)
    IN IF ~ValidWordCount(n)
       THEN [err |-> "ErrInvalidMnemonic", entropy |-> <<>>]
       ELSE IF \E i \in 1..n : words[i] \notin WordList
       THEN [err |-> "word not found in reverse map", entropy |-> <<>>]
       ELSE LET bits == [k \in 1..(11 * n) |->
                            (words[((k - 1) \div 11) + 1] \div Pow2(10 - ((k - 1) % 11))) % 2]
                checksumLength == n \div 3
                entropy == BitsToBytes(SubSeq(bits, 1, 11 * n - checksumLength))
                checksum == SubSeq(bits, 11 * n - checksumLength + 1, 11 * n)
            IN IF checksum # ChecksumBits(entropy)
               THEN [err |-> "ErrChecksumIncorrect", entropy |-> <<>>]
               ELSE [err |-> "nil", entropy |-> entropy]

\* a validation that, like go-bip39 before its checksum test was added, only
\* looks at the word count and the word list
IsMnemonicValidNoChecksum(mnemonic) ==
    LET words == Fields(mnemonic)
    IN /\ ValidWordCount(Len(words))
       /\ \A i \in 1..Len(words) : words[i] \in WordList

\* bip39.IsMnemonicValid(mnemonic)
IsMnemonicValid(mnemonic) == EntropyFromMnemonic(mnemonic).err = "nil"

\* bip39.NewSeed(mnemonic, password): PBKDF2-HMAC-SHA512 of the bytes of the
\* text as given, salt "mnemonic" + password, 64 bytes
NewSeed(mnemonic, password) ==
    DigestBytes(Mix(Mix(109, OrdAll(<<"m","n","e","m","o","n","i","c">>) \o password),
                    mnemonic), 64)

(***************************************************************************)
(* Numbers as big-endian byte strings, base58 and base58check              *)
(* (btcutil/base58), hexadecimal (encoding/hex).                           *)
(***************************************************************************)
Zeros(n) == [i \in 1..n |-> 0]

\* the number of leading elements of s equal to z
LeadingCount(s, z) ==
    LET F[i \in 0..Len(s)] ==
            IF i = Len(s) THEN 0
            ELSE IF s[i + 1] # z THEN 0 ELSE 1 + F[i + 1]
    IN F[0]

\* s without its leading zeros
StripZeros(s) == SubSeq(s, LeadingCount(s, 0) + 1, Len(s))

\* the 32-byte big-endian form of a number (ser256, PrivateKey.Serialize)
Ser256(v) ==
    [i \in 1..32 |-> IF i <= 28 THEN 0 ELSE (v \div Pow2(8 * (32 - i))) % 256]

\* the number a big-endian byte string stands for (big.Int.SetBytes); the
\* byte strings this is applied to stand for numbers below 2^31
Parse256(bs) ==
    LET s == StripZeros(bs)
        F[i \in 0..Len(s)] == IF i = 0 THEN 0 ELSE 256 * F[i - 1] + s[i]
    IN F[Len(s)]

\* quotient and remainder of the number with digits `num` in base `from`
\* by `by`
DivMod(num, from, by) ==
    LET F[i \in 0..Len(num)] ==
            IF i = 0 THEN [q |-> <<>>, r |-> 0]
            ELSE LET prev == F[i - 1]
                     cur == prev.r * from + num[i]
                 IN [q |-> Append(prev.q, cur \div by), r |-> cur % by]
    IN F[Len(num)]

\* the digits in base `to` of the number with digits `num` in base `from`,
\* without leading zeros
RECURSIVE Radix(_, _, _, _)
Radix(num, from, to, acc) ==
    LET n == StripZeros(num)
    IN IF Len(n) = 0 THEN acc
       ELSE LET dm == DivMod(n, from, to)
            IN Radix(dm.q, from, to, <<dm.r>> \o acc)

Base58Alphabet ==
    <<"1","2","3","4","5","6","7","8","9","A","B","C","D","E","F","G","H",
      "J","K","L","M","N","P","Q","R","S","T","U","V","W","X","Y","Z","a",
      "b","c","d","e","f","g","h","i","j","k","m","n","o","p","q","r","s",
      "t","u","v","w","x","y","z">>

\* the position of ch in an alphabet, counted from 0, or -1
IndexIn(alphabet, ch) ==
    IF \E i \in 1..Len(alphabet) : alphabet[i] = ch
    THEN (CHOOSE i \in 1..Len(alphabet) : alphabet[i] = ch) - 1
    ELSE 0 - 1

\* base58.Encode: one "1" per leading zero byte, then the number in base 58
Base58Encode(bs) ==
    LET digits == Radix(bs, 256, 58, <<>>)
    IN [i \in 1..LeadingCount(bs, 0) |-> "1"]
       \o [i \in 1..Len(digits) |-> Base58Alphabet[digits[i] + 1]]

\* base58.Decode: the inverse; the empty byte string for a text with a
\* character outside the alphabet
Base58Decode(text) ==
    LET digits == [i \in 1..Len(text) |-> IndexIn(Base58Alphabet, text[i])]
    IN IF \E i \in 1..Len(digits) : digits[i] < 0 THEN <<>>
       ELSE Zeros(LeadingCount(text, "1")) \o Radix(digits, 58, 256, <<>>)

\* a checksum taken from a single SHA-256
Checksum4Single(bs) == SubSeq(SHA256(bs), 1, 4)

\* base58 checksum: the first four bytes of the double SHA-256
Checksum4(bs) == SubSeq(DoubleSHA256(bs), 1, 4)

\* base58.CheckEncode(input, version)
CheckEncode(input, version) ==
    LET b == <<version>> \o input
    IN Base58Encode(b \o Checksum4(b))

\* base58.CheckDecode(text)
CheckDecode(text) ==
    LET decoded == Base58Decode(text)
        n == Len(decoded)
    IN IF n < 5
       THEN [err |-> "ErrInvalidFormat", version |-> 0, payload |-> <<>>]
       ELSE IF Checksum4(SubSeq(decoded, 1, n - 4)) # SubSeq(decoded, n - 3, n)
       THEN [err |-> "ErrChecksum", version |-> 0, payload |-> <<>>]
       ELSE [err |-> "nil", version |-> decoded[1], payload |-> SubSeq(decoded, 2, n - 4)]

HexDigits == <<"0","1","2","3","4","5","6","7","8","9","a","b","c","d","e","f">>

\* hex.EncodeToString
HexEncode(bs) ==
    [i \in 1..(2 * Len(bs)) |->
        IF i % 2 = 1 THEN HexDigits[(bs[(i + 1) \div 2] \div 16) + 1]
        ELSE HexDigits[(bs[i \div 2] % 16) + 1]]

\* hex.DecodeString of a text of hexadecimal digits
HexDecode(text) ==
    [j \in 1..(Len(text) \div 2) |->
        16 * IndexIn(HexDigits, text[2 * j - 1]) + IndexIn(HexDigits, text[2 * j])]

(***************************************************************************)
(* bech32 and segwit addresses (btcutil/bech32, btcutil address.go).       *)
(***************************************************************************)
Bech32Charset ==
    <<"q","p","z","r","y","9","x","8","g","f","2","t","v","d","w","0",
      "s","3","j","n","5","4","k","h","c","e","6","m","u","a","7","l">>

\* bech32.ConvertBits(data, 8, 5, true): the bits regrouped by five, the
\* last group padded with zeros
ConvertBits8To5(bs) ==
    LET bits == BytesToBits(bs)
        n == (Len(bits) + 4) \div 5
        padded == bits \o Zeros(5 * n - Len(bits))
    IN [i \in 1..n |-> BitsToInt(SubSeq(padded, 5 * i - 4, 5 * i))]

\* bech32.ConvertBits(data, 5, 8, false): the bits regrouped by eight, the
\* incomplete last group dropped
ConvertBits5To8(groups) ==
    LET bits == [k \in 1..(5 * Len(groups)) |->
                    IntToBits(groups[((k - 1) \div 5) + 1], 5)[((k - 1) % 5) + 1]]
    IN BitsToBytes(SubSeq(bits, 1, 8 * (Len(bits) \div 8)))

\* bech32 checksum of human-readable part and data: six 5-bit groups
Bech32Checksum(hrp, data) ==
    LET d == DigestBytes(Mix(Mix(113, OrdAll(hrp)), data), 6)
    IN [i \in 1..6 |-> d[i] % 32]

\* bech32.Encode(hrp, data): hrp, the separator "1", data and checksum
Bech32Encode(hrp, data) ==
    LET all == data \o Bech32Checksum(hrp, data)
    IN hrp \o <<"1">> \o [i \in 1..Len(all) |-> Bech32Charset[all[i] + 1]]

\* the position of the last "1" of a text, or 0
LastSeparator(text) ==
    IF \E i \in 1..Len(text) : text[i] = "1"
    THEN CHOOSE i \in 1..Len(text) :
            text[i] = "1" /\ \A j \in (i + 1)..Len(text) : text[j] # "1"
    ELSE 0

\* bech32.Decode(text)
Bech32Decode(text) ==
    LET one == LastSeparator(text)
        hrp == SubSeq(text, 1, one - 1)
        rest == [i \in 1..(Len(text) - one) |-> IndexIn(Bech32Charset, text[one + i])]
        n == Len(rest)
    IN IF one < 2 \/ n < 6
       THEN [err |-> "ErrInvalidSeparatorIndex", hrp |-> <<>>, data |-> <<>>]
       ELSE IF \E i \in 1..n : rest[i] < 0
       THEN [err |-> "ErrNonCharsetChar", hrp |-> <<>>, data |-> <<>>]
       ELSE IF Bech32Checksum(hrp, SubSeq(rest, 1, n - 6)) # SubSeq(rest, n - 5, n)
       THEN [err |-> "ErrInvalidChecksum", hrp |-> <<>>, data |-> <<>>]
       ELSE [err |-> "nil", hrp |-> hrp, data |-> SubSeq(rest, 1, n - 6)]

\* encodeSegWitAddress(hrp, witnessVersion, witnessProgram)
EncodeSegWitAddress(hrp, witnessVersion, witnessProgram) ==
    Bech32Encode(hrp, <<witnessVersion>> \o ConvertBits8To5(witnessProgram))

\* decodeSegWitAddress: human-readable part, witness version and program
DecodeSegWitAddress(text) ==
    LET dec == Bech32Decode(text)
    IN IF dec.err # "nil" \/ Len(dec.data) < 1
       THEN [err |-> "invalid", hrp |-> <<>>, version |-> 0, program |-> <<>>]
       ELSE [err |-> "nil", hrp |-> dec.hrp, version |-> dec.data[1],
             program |-> ConvertBits5To8(SubSeq(dec.data, 2, Len(dec.data)))]

(***************************************************************************)
(* secp256k1 (btcec) and BIP32 keys (btcutil/hdkeychain), scaled: a scalar *)
(* is a number below CurveOrder, a 256-bit quantity is the 32-byte         *)
(* big-endian form of a number below 256.                                  *)
(***************************************************************************)
\* btcec.S256().N, scaled: the largest prime below 2^8
CurveOrder == 251

\* the group the public keys live in, scaled: the subgroup of order
\* CurveOrder of the integers modulo CurvePrime, generated by Generator
CurvePrime == 503

Generator == 4

\* HMAC-SHA512 keyed by `key` over `data`: 64 bytes, of which each half
\* stands for a 256-bit number
HMACSHA512(key, data) ==
    LET h == Mix(Mix(107, key), data)
    IN Ser256(h % 256) \o Ser256((h \div 256) % 256)

\* g^k modulo p, by squaring
RECURSIVE PowMod(_, _, _)
PowMod(g, k, p) ==
    IF k = 0 THEN 1
    ELSE LET half == PowMod(g, k \div 2, p)
             sq == (half * half) % p
         IN IF k % 2 = 0 THEN sq ELSE (sq * g) % p

\* btcec.PrivKeyFromBytes: the scalar of a byte string, modulo the order
PrivKeyFromBytes(bs) == Parse256(bs) % CurveOrder

\* PrivateKey.Serialize: 32 bytes
SerializePrivKey(d) == Ser256(d)

\* PrivateKey.PubKey: the point d*G
PubKey(d) ==
    LET x == PowMod(Generator, d, CurvePrime)
    IN [x |-> x, y |-> (x * x * x + 7) % CurvePrime]

\* PublicKey.SerializeCompressed: 0x02 or 0x03 by the parity of y, then x
SerializeCompressed(pub) == <<2 + (pub.y % 2)>> \o Ser256(pub.x)

\* a child index i (a uint32): HardenedKeyStart + num when hardened, else num
Index(hardened, num) == [hardened |-> hardened, num |-> num]

\* binary.BigEndian.PutUint32 of a child index
Ser32(i) ==
    <<(IF i.hardened THEN 128 ELSE 0) + ((i.num \div Pow2(24)) % 128),
      (i.num \div Pow2(16)) % 256, (i.num \div Pow2(8)) % 256, i.num % 256>>

\* the zero value of an extended key (a nil *ExtendedKey)
NoKey ==
    [key |-> <<>>, chainCode |-> <<>>, depth |-> 0, parentFP |-> <<>>,
     childNum |-> Index(FALSE, 0), version |-> <<>>, isPrivate |-> FALSE]

\* hdkeychain.NewMaster(seed, net)
NewMaster(seed, net) ==
    IF Len(seed) < 16 \/ Len(seed) > 64
    THEN [err |-> "ErrInvalidSeedLen", key |-> NoKey]
    ELSE LET lr == HMACSHA512(OrdAll(<<"b","i","t","c","o","i","n"," ","s","e","e","d">>), seed)
             secretKey == SubSeq(lr, 1, 32)
             chainCode == SubSeq(lr, 33, 64)
             secretKeyNum == Parse256(secretKey)
         IN IF secretKeyNum >= CurveOrder \/ secretKeyNum = 0
            THEN [err |-> "ErrUnusableSeed", key |-> NoKey]
            ELSE [err |-> "nil",
                  key |-> [key |-> secretKey, chainCode |-> chainCode, depth |-> 0,
                           parentFP |-> <<0, 0, 0, 0>>, childNum |-> Index(FALSE, 0),
                           version |-> net.HDPrivateKeyID, isPrivate |-> TRUE]]

\* ExtendedKey.pubKeyBytes of a private extended key
PubKeyBytes(k) == SerializeCompressed(PubKey(PrivKeyFromBytes(k.key)))

\* ExtendedKey.Derive(i) of a private extended key
Derive(k, i) ==
    IF k.depth = 255 THEN [err |-> "ErrDeriveBeyondMaxDepth", key |-> NoKey]
    ELSE IF ~k.isPrivate /\ i.hardened
    THEN [err |-> "ErrDeriveHardFromPublic", key |-> NoKey]
    ELSE LET data == (IF i.hardened
                      THEN Zeros(33 - Len(k.key)) \o k.key
                      ELSE PubKeyBytes(k)) \o Ser32(i)
             ilr == HMACSHA512(k.chainCode, data)
             il == SubSeq(ilr, 1, 32)
             childChainCode == SubSeq(ilr, 33, 64)
             ilNum == Parse256(il)
         IN IF ilNum >= CurveOrder \/ ilNum = 0
            THEN [err |-> "ErrInvalidChild", key |-> NoKey]
            ELSE [err |-> "nil",
                  key |-> [key |-> StripZeros(Ser256((ilNum + Parse256(k.key)) % CurveOrder)),
                           chainCode |-> childChainCode, depth |-> k.depth + 1,
                           parentFP |-> SubSeq(Hash160(PubKeyBytes(k)), 1, 4),
                           childNum |-> i, version |-> k.version,
                           isPrivate |-> TRUE]]

\* ExtendedKey.ECPrivKey
ECPrivKey(k) ==
    IF ~k.isPrivate THEN [err |-> "ErrNotPrivExtKey", priv |-> 0]
    ELSE [err |-> "nil", priv |-> PrivKeyFromBytes(k.key)]

(***************************************************************************)
(* btcutil: WIF and addresses.                                             *)
(***************************************************************************)
\* btcutil.NewWIF(privKey, net, compress); net is never nil here
NewWIF(privKey, net, compress) ==
    [err |-> "nil",
     wif |-> [PrivKey |-> privKey, CompressPubKey |-> compress, netID |-> net.PrivateKeyID]]

\* a WIF text without the compression flag
WIFStringNoFlag(w) ==
    LET a == <<w.netID>> \o SerializePrivKey(w.PrivKey)
    IN Base58Encode(a \o Checksum4(a))

\* WIF.String
WIFString(w) ==
    LET a == <<w.netID>> \o SerializePrivKey(w.PrivKey)
             \o (IF w.CompressPubKey THEN <<1>> ELSE <<>>)
    IN Base58Encode(a \o Checksum4(a))

\* btcutil.NewAddressPubKeyHash(pkHash, net)
NewAddressPubKeyHash(pkHash, net) ==
    IF Len(pkHash) # 20
    THEN [err |-> "pkHash must be 20 bytes", addr |-> [hash |-> <<>>, netID |-> 0]]
    ELSE [err |-> "nil", addr |-> [hash |-> pkHash, netID |-> net.PubKeyHashAddrID]]

\* AddressPubKeyHash.EncodeAddress
EncodeAddressPubKeyHash(a) == CheckEncode(a.hash, a.netID)

\* btcutil.NewAddressWitnessPubKeyHash(witnessProg, net)
NewAddressWitnessPubKeyHash(witnessProg, net) ==
    IF Len(witnessProg) # 20
    THEN [err |-> "witness program must be 20 bytes for p2wpkh",
          addr |-> [hrp |-> <<>>, witnessVersion |-> 0, witnessProgram |-> <<>>]]
    ELSE [err |-> "nil",
          addr |-> [hrp |-> net.Bech32HRPSegwit, witnessVersion |-> 0,
                    witnessProgram |-> witnessProg]]

\* AddressWitnessPubKeyHash.EncodeAddress
EncodeAddressWitnessPubKeyHash(a) ==
    EncodeSegWitAddress(a.hrp, a.witnessVersion, a.witnessProgram)

(***************************************************************************)
(* State.                                                                  *)
(*   main              the main goroutine (main.go 780-826): where it is,  *)
(*                     the WALLET_WIF of the process environment (<<>>     *)
(*                     when unset, else <<value>>) and the JSON-RPC        *)
(*                     requests it has made                                *)
(*   KernelcoinParams  the package-level network parameters (wallet.go 26) *)
(*   calls             the calls of the two entry points in flight: for    *)
(*                     each, the function, the statement it is at, its     *)
(*                     local variables, the library calls it has made and, *)
(*                     once returned, the pair (wallet, err) it returned   *)
(*   wallets           the sessions in the server's map ws.wallets         *)
(*                     (main.go 19, 147)                                   *)
(*   reqs              the HTTP requests being served: for each, route,    *)
(*                     method and body, the statement its handler is at,   *)
(*                     the JSON-RPC requests the handler has made, and     *)
(*                     the status and JSON object it answered with         *)
(***************************************************************************)
VARIABLES main, KernelcoinParams, calls, wallets, reqs

vars == <<main, KernelcoinParams, calls, wallets, reqs>>

Slots == 1..MaxCalls

\* the value of the composite literal at wallet.go 26-43 (Net, a uint32, as
\* its four bytes)
KernelcoinMainnet ==
    [Name |-> "kernelcoin",
     Net |-> <<241, 200, 210, 253>>,
     PubKeyHashAddrID |-> 45,
     ScriptHashAddrID |-> 23,
     PrivateKeyID |-> 28,
     WitnessPubKeyHashAddrID |-> 6,
     WitnessScriptHashAddrID |-> 10,
     HDPrivateKeyID |-> <<119, 136, 173, 228>>,
     HDPublicKeyID |-> <<119, 136, 178, 30>>,
     Bech32HRPSegwit |-> <<"k", "c", "n">>]

\* the parameters of another network, Litecoin's main network, that a caller
\* of a profile-taking entry point could pass
LitecoinMainNet ==
    [Name |-> "litecoin",
     Net |-> <<219, 182, 192, 251>>,
     PubKeyHashAddrID |-> 48,
     ScriptHashAddrID |-> 50,
     PrivateKeyID |-> 176,
     WitnessPubKeyHashAddrID |-> 6,
     WitnessScriptHashAddrID |-> 10,
     HDPrivateKeyID |-> <<1, 157, 156, 254>>,
     HDPublicKeyID |-> <<1, 157, 164, 98>>,
     Bech32HRPSegwit |-> <<"l", "t", "c">>]

Profiles == {KernelcoinMainnet, LitecoinMainNet}

\* a value the entropy source can return: 16 bytes (crypto/rand.Read)
EntropySample(k) == [i \in 1..16 |-> (k * (5 * i + 1)) % 256]

EntropySamples == {EntropySample(k) : k \in 0..(MaxEntropy - 1)}

\* the text m with its i-th word replaced by w
WithWord(m, i, w) == [m EXCEPT ![2 * i - 1] = w]

\* a 15-word mnemonic that validates (160 bits of entropy)
Mnemonic15 == NewMnemonic([i \in 1..20 |-> (11 * i) % 256]).mnemonic

\* the text m with a second space after its first word
DoubleSpaced(m) == <<m[1], SP>> \o Tail(m)

\* the texts a caller passes to GenerateWalletFromMnemonic: the mnemonics
\* GenerateNewWallet can produce, a 15-word mnemonic, one mnemonic typed
\* with two spaces after its first word, and texts validation is to reject:
\* the empty text, an unknown word, 13 words, 11 words, a changed last word
MnemonicInputs ==
    LET generated == {NewMnemonic(e).mnemonic : e \in EntropySamples}
    IN generated
       \cup {<<>>, Mnemonic15}
       \cup {DoubleSpaced(NewMnemonic(EntropySample(0)).mnemonic)}
       \cup {WithWord(m, 1, NotAWord) : m \in generated}
       \cup {m \o <<SP, m[1]>> : m \in generated}
       \cup {SubSeq(m, 1, Len(m) - 2) : m \in generated}
       \cup {WithWord(m, 12, (m[Len(m)] + 1) % 2048) : m \in generated}

\* the zero values of the local variables of a call
NoWIF == [PrivKey |-> 0, CompressPubKey |-> FALSE, netID |-> 0]

NoAddressPubKeyHash == [hash |-> <<>>, netID |-> 0]

NoAddressWitnessPubKeyHash == [hrp |-> <<>>, witnessVersion |-> 0, witnessProgram |-> <<>>]

\* a slot no call is using
Idle ==
    [fn |-> "none", pc |-> "idle", mnemonic |-> <<>>, entropy |-> <<>>,
     seed |-> <<>>, masterKey |-> NoKey, purpose |-> NoKey, coinType |-> NoKey,
     account |-> NoKey, change |-> NoKey, addressKey |-> NoKey, privKey |-> 0,
     wif |-> NoWIF, pubKeyHash |-> <<>>, legacyAddr |-> NoAddressPubKeyHash,
     bech32Addr |-> NoAddressWitnessPubKeyHash, derivationPath |-> "",
     wallet |-> <<>>, err |-> "nil", cause |-> "nil", steps |-> <<>>]

\* a slot no request is using
NoRequest ==
    [route |-> "none", method |-> "none",
     body |-> [decodes |-> FALSE, to_address |-> "", amount |-> 0, wif |-> "",
               hasMnemonic |-> FALSE, mnemonic |-> <<>>,
               address_type |-> "", type |-> "", address |-> ""],
     pc |-> "free", rpc |-> <<>>, status |-> 0, response |-> <<>>]

\* A process started without WALLET_WIF, at the moment its main goroutine
\* begins to serve (main.go 823): nothing was asked of the daemon on the
\* way.  How a process gets there is the matter of StartupSpec.
\* NewWalletServer makes the map of sessions empty (main.go 147).
Init ==
    /\ main = [pc |-> "serving", WALLET_WIF |-> <<>>, rpc |-> <<>>]
    /\ KernelcoinParams = KernelcoinMainnet
    /\ calls = [s \in Slots |-> Idle]
    /\ wallets = {}
    /\ reqs = [s \in Slots |-> NoRequest]

(***************************************************************************)
(* The statements of the entry points.  A call returns by moving to        *)
(* "returned" with wallet (a pointer: <<>> is nil, <<w>> points to w) and  *)
(* err set; `steps` lists the library calls it made, in order.             *)
(***************************************************************************)
\* an error return that hands back the wallet built so far with the error
ReturnErrPartial(c, step, msg, cause) ==
    [c EXCEPT !.pc = "returned", !.cause = cause,
              !.wallet = <<[Mnemonic |-> c.mnemonic, PrivateKeyHex |-> <<>>,
                            PrivateKeyWIF |-> <<>>, PublicKeyHex |-> <<>>,
                            LegacyAddress |-> <<>>, SegWitAddress |-> <<>>,
                            PublicKeyHash |-> <<>>, DerivationPath |-> ""]>>,
              !.err = msg,
              !.steps = Append(c.steps, step)]

\* return nil, fmt.Errorf(msg + ": %w", err): the message and the error it
\* wraps ("nil" when the message wraps nothing)
ReturnErr(c, step, msg, cause) ==
    [c EXCEPT !.pc = "returned", !.wallet = <<>>, !.err = msg, !.cause = cause,
              !.steps = Append(c.steps, step)]

\* the call in slot s, of function fn, is at statement pc
At(s, fn, pc) == calls[s].fn = fn /\ calls[s].pc = pc

\* entropy, err := bip39.NewEntropy(128): the entropy source returns 16
\* bytes or fails
EntropyStmt(s, to) ==
    /\ \/ \E e \in EntropySamples :
            calls' = [calls EXCEPT ![s] =
                        [@ EXCEPT !.pc = to, !.entropy = e,
                                  !.steps = Append(@, "NewEntropy")]]
       \/ calls' = [calls EXCEPT ![s] =
                        ReturnErr(@, "NewEntropy", "failed to generate entropy", "rand.Read failed")]
    /\ UNCHANGED <<main, KernelcoinParams, wallets, reqs>>

\* mnemonic, err := bip39.NewMnemonic(entropy)
MnemonicStmt(s, to) ==
    /\ LET r == NewMnemonic(calls[s].entropy)
       IN calls' = [calls EXCEPT ![s] =
                      IF r.err # "nil"
                      THEN ReturnErr(@, "NewMnemonic", "failed to generate mnemonic", r.err)
                      ELSE [@ EXCEPT !.pc = to, !.mnemonic = r.mnemonic,
                                     !.steps = Append(@, "NewMnemonic")]]
    /\ UNCHANGED <<main, KernelcoinParams, wallets, reqs>>

\* a validation whose result is not looked at
ValidateStmtIgnored(s, to) ==
    /\ calls' = [calls EXCEPT ![s] =
                   [@ EXCEPT !.pc = to,
                             !.steps = Append(@, "IsMnemonicValid")]]
    /\ UNCHANGED <<main, KernelcoinParams, wallets, reqs>>

\* if !bip39.IsMnemonicValid(mnemonic) { return nil, error }
ValidateStmt(s, to) ==
    /\ calls' = [calls EXCEPT ![s] =
                   IF ~IsMnemonicValid(calls[s].mnemonic)
                   THEN ReturnErr(@, "IsMnemonicValid", "invalid mnemonic phrase", "nil")
                   ELSE [@ EXCEPT !.pc = to,
                                  !.steps = Append(@, "IsMnemonicValid")]]
    /\ UNCHANGED <<main, KernelcoinParams, wallets, reqs>>

\* a seed that takes in state shared between the calls, here the number of
\* calls in flight
SeedStmtShared(s, to, password) ==
    /\ LET inFlight == Cardinality({t \in Slots : calls[t].pc \notin {"idle", "returned"}})
       IN calls' = [calls EXCEPT ![s] =
                      [@ EXCEPT !.pc = to,
                                !.seed = NewSeed(calls[s].mnemonic,
                                                 password \o <<inFlight>>),
                                !.steps = Append(@, "NewSeed")]]
    /\ UNCHANGED <<main, KernelcoinParams, wallets, reqs>>

\* seed := bip39.NewSeed(mnemonic, password)
SeedStmt(s, to, password) ==
    /\ calls' = [calls EXCEPT ![s] =
                   [@ EXCEPT !.pc = to,
                             !.seed = NewSeed(calls[s].mnemonic, password),
                             !.steps = Append(@, "NewSeed")]]
    /\ UNCHANGED <<main, KernelcoinParams, wallets, reqs>>

\* a master-key step that writes to the package-level parameters
MasterStmtSetsNet(s, to, net) ==
    /\ LET r == NewMaster(calls[s].seed, net)
       IN calls' = [calls EXCEPT ![s] =
                      IF r.err # "nil"
                      THEN ReturnErr(@, "NewMaster", "failed to create master key", r.err)
                      ELSE [@ EXCEPT !.pc = to, !.masterKey = r.key,
                                     !.steps = Append(@, "NewMaster")]]
    /\ KernelcoinParams' = [KernelcoinParams EXCEPT !.HDPrivateKeyID = <<4, 136, 173, 228>>]
    /\ UNCHANGED <<main, wallets, reqs>>

\* masterKey, err := hdkeychain.NewMaster(seed, net)
MasterStmt(s, to, net) ==
    /\ LET r == NewMaster(calls[s].seed, net)
       IN calls' = [calls EXCEPT ![s] =
                      IF r.err # "nil"
                      THEN ReturnErr(@, "NewMaster", "failed to create master key", r.err)
                      ELSE [@ EXCEPT !.pc = to, !.masterKey = r.key,
                                     !.steps = Append(@, "NewMaster")]]
    /\ UNCHANGED <<main, KernelcoinParams, wallets, reqs>>

\* a derivation whose error is dropped: the call goes on with the key it had
DeriveStmtErrDropped(s, to, parent, child, index, msg) ==
    /\ LET r == Derive(calls[s][parent], index)
       IN calls' = [calls EXCEPT ![s] =
                      [@ EXCEPT !.pc = to,
                                ![child] = IF r.err # "nil" THEN calls[s][parent] ELSE r.key,
                                !.steps = Append(@, "Derive")]]
    /\ UNCHANGED <<main, KernelcoinParams, wallets, reqs>>

\* a derivation whose parent key is held in a variable shared by the calls:
\* it derives from the key of the first call that has one
DeriveStmtSharedParent(s, to, parent, child, index, msg) ==
    /\ LET first == CHOOSE t \in Slots :
                        /\ calls[t][parent] # NoKey
                        /\ \A u \in Slots : calls[u][parent] # NoKey => t <= u
           r == Derive(calls[first][parent], index)
       IN calls' = [calls EXCEPT ![s] =
                      IF r.err # "nil"
                      THEN ReturnErr(@, "Derive", msg, r.err)
                      ELSE [@ EXCEPT !.pc = to, ![child] = r.key,
                                     !.steps = Append(@, "Derive")]]
    /\ UNCHANGED <<main, KernelcoinParams, wallets, reqs>>

\* child, err := parent.Derive(index)
DeriveStmt(s, to, parent, child, index, msg) ==
    /\ LET r == Derive(calls[s][parent], index)
       IN calls' = [calls EXCEPT ![s] =
                      IF r.err # "nil"
                      THEN ReturnErr(@, "Derive", msg, r.err)
                      ELSE [@ EXCEPT !.pc = to, ![child] = r.key,
                                     !.steps = Append(@, "Derive")]]
    /\ UNCHANGED <<main, KernelcoinParams, wallets, reqs>>

\* privKey, err := addressKey.ECPrivKey()
PrivKeyStmt(s, to) ==
    /\ LET r == ECPrivKey(calls[s].addressKey)
       IN calls' = [calls EXCEPT ![s] =
                      IF r.err # "nil"
                      THEN ReturnErr(@, "ECPrivKey", "failed to get private key", r.err)
                      ELSE [@ EXCEPT !.pc = to, !.privKey = r.priv,
                                     !.steps = Append(@, "ECPrivKey")]]
    /\ UNCHANGED <<main, KernelcoinParams, wallets, reqs>>

\* wif, err := btcutil.NewWIF(privKey, net, compress)
WIFStmt(s, to, net, compress) ==
    /\ LET r == NewWIF(calls[s].privKey, net, compress)
       IN calls' = [calls EXCEPT ![s] =
                      IF r.err # "nil"
                      THEN ReturnErr(@, "NewWIF", "failed to create WIF", r.err)
                      ELSE [@ EXCEPT !.pc = to, !.wif = r.wif,
                                     !.steps = Append(@, "NewWIF")]]
    /\ UNCHANGED <<main, KernelcoinParams, wallets, reqs>>

\* an address step that hashes the public key without its parity byte
LegacyAddrStmtXOnly(s, to, net) ==
    /\ LET pubKeyHash == Hash160(Tail(SerializeCompressed(PubKey(calls[s].privKey))))
           r == NewAddressPubKeyHash(pubKeyHash, net)
       IN calls' = [calls EXCEPT ![s] =
                      IF r.err # "nil"
                      THEN ReturnErr(@, "NewAddressPubKeyHash", "failed to create legacy address", r.err)
                      ELSE [@ EXCEPT !.pc = to, !.pubKeyHash = pubKeyHash,
                                     !.legacyAddr = r.addr,
                                     !.steps = Append(@, "NewAddressPubKeyHash")]]
    /\ UNCHANGED <<main, KernelcoinParams, wallets, reqs>>

\* pubKey := privKey.PubKey()
\* pubKeyHash := btcutil.Hash160(pubKey.SerializeCompressed())
\* legacyAddr, err := btcutil.NewAddressPubKeyHash(pubKeyHash, net)
LegacyAddrStmt(s, to, net) ==
    /\ LET pubKeyHash == Hash160(SerializeCompressed(PubKey(calls[s].privKey)))
           r == NewAddressPubKeyHash(pubKeyHash, net)
       IN calls' = [calls EXCEPT ![s] =
                      IF r.err # "nil"
                      THEN ReturnErr(@, "NewAddressPubKeyHash", "failed to create legacy address", r.err)
                      ELSE [@ EXCEPT !.pc = to, !.pubKeyHash = pubKeyHash,
                                     !.legacyAddr = r.addr,
                                     !.steps = Append(@, "NewAddressPubKeyHash")]]
    /\ UNCHANGED <<main, KernelcoinParams, wallets, reqs>>

\* bech32Addr, err := btcutil.NewAddressWitnessPubKeyHash(pubKeyHash, net)
Bech32AddrStmt(s, to, net) ==
    /\ LET r == NewAddressWitnessPubKeyHash(calls[s].pubKeyHash, net)
       IN calls' = [calls EXCEPT ![s] =
                      IF r.err # "nil"
                      THEN ReturnErr(@, "NewAddressWitnessPubKeyHash", "failed to create bech32 address", r.err)
                      ELSE [@ EXCEPT !.pc = to, !.bech32Addr = r.addr,
                                     !.steps = Append(@, "NewAddressWitnessPubKeyHash")]]
    /\ UNCHANGED <<main, KernelcoinParams, wallets, reqs>>

\* wallet := &Wallet{...}; return wallet, nil
WalletStmt(s, derivationPath) ==
    /\ LET c == calls[s]
           pubKey == PubKey(c.privKey)
           wallet == [Mnemonic |-> c.mnemonic,
                      PrivateKeyHex |-> HexEncode(SerializePrivKey(c.privKey)),
                      PrivateKeyWIF |-> WIFString(c.wif),
                      PublicKeyHex |-> HexEncode(SerializeCompressed(pubKey)),
                      LegacyAddress |-> EncodeAddressPubKeyHash(c.legacyAddr),
                      SegWitAddress |-> EncodeAddressWitnessPubKeyHash(c.bech32Addr),
                      PublicKeyHash |-> HexEncode(c.pubKeyHash),
                      DerivationPath |-> derivationPath]
       IN calls' = [calls EXCEPT ![s] =
                      [@ EXCEPT !.pc = "returned", !.derivationPath = derivationPath,
                                !.wallet = <<wallet>>, !.err = "nil"]]
    /\ UNCHANGED <<main, KernelcoinParams, wallets, reqs>>

(***************************************************************************)
(* GenerateNewWallet (wallet.go 46-137).                                   *)
(***************************************************************************)
\* a caller calls GenerateNewWallet()
CallGenerateNewWallet(s) ==
    /\ calls[s].pc = "idle"
    /\ calls' = [calls EXCEPT ![s] =
                   [Idle EXCEPT !.fn = "GenerateNewWallet", !.pc = "entropy"]]
    /\ UNCHANGED <<main, KernelcoinParams, wallets, reqs>>

New_entropy(s) ==
    /\ At(s, "GenerateNewWallet", "entropy")
    /\ EntropyStmt(s, "mnemonic")

New_mnemonic(s) ==
    /\ At(s, "GenerateNewWallet", "mnemonic")
    /\ MnemonicStmt(s, "seed")

New_seed(s) ==
    /\ At(s, "GenerateNewWallet", "seed")
    /\ SeedStmt(s, "masterKey", <<>>)

New_masterKey(s) ==
    /\ At(s, "GenerateNewWallet", "masterKey")
    /\ MasterStmt(s, "purpose", KernelcoinParams)

New_purpose(s) ==
    /\ At(s, "GenerateNewWallet", "purpose")
    /\ DeriveStmt(s, "coinType",
                  "masterKey", "purpose", Index(TRUE, 44), "failed to derive purpose")

New_coinType(s) ==
    /\ At(s, "GenerateNewWallet", "coinType")
    /\ DeriveStmt(s, "account",
                  "purpose", "coinType", Index(TRUE, 2), "failed to derive coin type")

New_account(s) ==
    /\ At(s, "GenerateNewWallet", "account")
    /\ DeriveStmt(s, "change",
                  "coinType", "account", Index(TRUE, 0), "failed to derive account")

\* a change level derived hardened
New_changeHardened(s) ==
    /\ At(s, "GenerateNewWallet", "change")
    /\ DeriveStmt(s, "addressKey",
                  "account", "change", Index(TRUE, 0), "failed to derive change")

New_change(s) ==
    /\ At(s, "GenerateNewWallet", "change")
    /\ DeriveStmt(s, "addressKey",
                  "account", "change", Index(FALSE, 0), "failed to derive change")

New_addressKey(s) ==
    /\ At(s, "GenerateNewWallet", "addressKey")
    /\ DeriveStmt(s, "privKey",
                  "change", "addressKey", Index(FALSE, 0), "failed to derive address key")

New_privKey(s) ==
    /\ At(s, "GenerateNewWallet", "privKey")
    /\ PrivKeyStmt(s, "wif")

\* a WIF encoded with another network's parameters
New_wifOtherNet(s) ==
    /\ At(s, "GenerateNewWallet", "wif")
    /\ WIFStmt(s, "legacyAddr", LitecoinMainNet, TRUE)

New_wif(s) ==
    /\ At(s, "GenerateNewWallet", "wif")
    /\ WIFStmt(s, "legacyAddr", KernelcoinParams, TRUE)

New_legacyAddr(s) ==
    /\ At(s, "GenerateNewWallet", "legacyAddr")
    /\ LegacyAddrStmt(s, "bech32Addr", KernelcoinParams)

New_bech32Addr(s) ==
    /\ At(s, "GenerateNewWallet", "bech32Addr")
    /\ Bech32AddrStmt(s, "wallet", KernelcoinParams)

New_wallet(s) ==
    /\ At(s, "GenerateNewWallet", "wallet")
    /\ WalletStmt(s, "m/44'/2'/0'/0/0")

(***************************************************************************)
(* GenerateWalletFromMnemonic (wallet.go 140-223).                         *)
(***************************************************************************)
\* a caller calls GenerateWalletFromMnemonic(mnemonic)
CallGenerateWalletFromMnemonic(s, mnemonic) ==
    /\ calls[s].pc = "idle"
    /\ calls' = [calls EXCEPT ![s] =
                   [Idle EXCEPT !.fn = "GenerateWalletFromMnemonic",
                                !.pc = "validate", !.mnemonic = mnemonic]]
    /\ UNCHANGED <<main, KernelcoinParams, wallets, reqs>>

From_validate(s) ==
    /\ At(s, "GenerateWalletFromMnemonic", "validate")
    /\ ValidateStmt(s, "seed")

From_seed(s) ==
    /\ At(s, "GenerateWalletFromMnemonic", "seed")
    /\ SeedStmt(s, "masterKey", <<>>)

From_masterKey(s) ==
    /\ At(s, "GenerateWalletFromMnemonic", "masterKey")
    /\ MasterStmt(s, "purpose", KernelcoinParams)

From_purpose(s) ==
    /\ At(s, "GenerateWalletFromMnemonic", "purpose")
    /\ DeriveStmt(s, "coinType",
                  "masterKey", "purpose", Index(TRUE, 44), "failed to derive purpose")

\* a restore that derives Bitcoin's coin type 0' in place of 2'
From_coinTypeBitcoin(s) ==
    /\ At(s, "GenerateWalletFromMnemonic", "coinType")
    /\ DeriveStmt(s, "account",
                  "purpose", "coinType", Index(TRUE, 0), "failed to derive coin type")

From_coinType(s) ==
    /\ At(s, "GenerateWalletFromMnemonic", "coinType")
    /\ DeriveStmt(s, "account",
                  "purpose", "coinType", Index(TRUE, 2), "failed to derive coin type")

From_account(s) ==
    /\ At(s, "GenerateWalletFromMnemonic", "account")
    /\ DeriveStmt(s, "change",
                  "coinType", "account", Index(TRUE, 0), "failed to derive account")

From_change(s) ==
    /\ At(s, "GenerateWalletFromMnemonic", "change")
    /\ DeriveStmt(s, "addressKey",
                  "account", "change", Index(FALSE, 0), "failed to derive change")

From_addressKey(s) ==
    /\ At(s, "GenerateWalletFromMnemonic", "addressKey")
    /\ DeriveStmt(s, "privKey",
                  "change", "addressKey", Index(FALSE, 0), "failed to derive address key")

From_privKey(s) ==
    /\ At(s, "GenerateWalletFromMnemonic", "privKey")
    /\ PrivKeyStmt(s, "wif")

From_wif(s) ==
    /\ At(s, "GenerateWalletFromMnemonic", "wif")
    /\ WIFStmt(s, "legacyAddr", KernelcoinParams, TRUE)

From_legacyAddr(s) ==
    /\ At(s, "GenerateWalletFromMnemonic", "legacyAddr")
    /\ LegacyAddrStmt(s, "bech32Addr", KernelcoinParams)

From_bech32Addr(s) ==
    /\ At(s, "GenerateWalletFromMnemonic", "bech32Addr")
    /\ Bech32AddrStmt(s, "wallet", KernelcoinParams)

From_wallet(s) ==
    /\ At(s, "GenerateWalletFromMnemonic", "wallet")
    /\ WalletStmt(s, "m/44'/2'/0'/0/0")

\* the caller is done with what a call returned
Release(s) ==
    /\ calls[s].pc = "returned"
    /\ calls' = [calls EXCEPT ![s] = Idle]
    /\ UNCHANGED <<main, KernelcoinParams, wallets, reqs>>

Next ==
    \E s \in Slots :
        \/ CallGenerateNewWallet(s)
        \/ New_entropy(s)
        \/ New_mnemonic(s)
        \/ New_seed(s)
        \/ New_masterKey(s)
        \/ New_purpose(s)
        \/ New_coinType(s)
        \/ New_account(s)
        \/ New_change(s)
        \/ New_addressKey(s)
        \/ New_privKey(s)
        \/ New_wif(s)
        \/ New_legacyAddr(s)
        \/ New_bech32Addr(s)
        \/ New_wallet(s)
        \/ \E m \in MnemonicInputs : CallGenerateWalletFromMnemonic(s, m)
        \/ From_validate(s)
        \/ From_seed(s)
        \/ From_masterKey(s)
        \/ From_purpose(s)
        \/ From_coinType(s)
        \/ From_account(s)
        \/ From_change(s)
        \/ From_addressKey(s)
        \/ From_privKey(s)
        \/ From_wif(s)
        \/ From_legacyAddr(s)
        \/ From_bech32Addr(s)
        \/ From_wallet(s)
        \/ Release(s)

Spec == Init /\ [][Next]_vars

\* a call is in flight: called and not yet returned
InFlight(s) == calls[s].pc \notin {"idle", "returned"}

(***************************************************************************)
(* The control flow of the entry points with the values left out.  Each    *)
(* statement either goes on to the statement after it or, where the source *)
(* has `if err != nil { return nil, ... }` (for IsMnemonicValid: `if !...`)*)
(* behind it, returns its error; whether it fails is left open.  No        *)
(* statement of wallet.go loops, jumps back, takes a lock or reads from a  *)
(* channel, a file or the network, so a statement waits for nothing.  Each *)
(* call runs on the goroutine of its caller, and the Go scheduler runs a   *)
(* runnable goroutine in the end: weak fairness of the steps of each call. *)
(***************************************************************************)
Stmt(pc, call, msg) == [pc |-> pc, call |-> call, msg |-> msg]

\* from the seed on the two entry points have the same statements
SharedStatements ==
    <<Stmt("seed", "NewSeed", ""),
      Stmt("masterKey", "NewMaster", "failed to create master key"),
      Stmt("purpose", "Derive", "failed to derive purpose"),
      Stmt("coinType", "Derive", "failed to derive coin type"),
      Stmt("account", "Derive", "failed to derive account"),
      Stmt("change", "Derive", "failed to derive change"),
      Stmt("addressKey", "Derive", "failed to derive address key"),
      Stmt("privKey", "ECPrivKey", "failed to get private key"),
      Stmt("wif", "NewWIF", "failed to create WIF"),
      Stmt("legacyAddr", "NewAddressPubKeyHash", "failed to create legacy address"),
      Stmt("bech32Addr", "NewAddressWitnessPubKeyHash", "failed to create bech32 address"),
      Stmt("wallet", "", "")>>

\* the statements of an entry point in source order: the position, the
\* library call made there and the message of its error return ("" where
\* the statement has no error return)
Statements(fn) ==
    IF fn = "GenerateNewWallet"
    THEN <<Stmt("entropy", "NewEntropy", "failed to generate entropy"),
           Stmt("mnemonic", "NewMnemonic", "failed to generate mnemonic")>>
         \o SharedStatements
    ELSE <<Stmt("validate", "IsMnemonicValid", "invalid mnemonic phrase")>>
         \o SharedStatements

\* the place of the statement a call in flight is at
Position(c) ==
    CHOOSE i \in 1..Len(Statements(c.fn)) : Statements(c.fn)[i].pc = c.pc

\* what a call is after its statement went through: at the next statement,
\* or returned after the last one
Continued(c) ==
    LET i == Position(c)
        st == Statements(c.fn)[i]
    IN IF i = Len(Statements(c.fn))
       THEN [c EXCEPT !.pc = "returned"]
       ELSE [c EXCEPT !.pc = Statements(c.fn)[i + 1].pc,
                      !.steps = Append(@, st.call)]

\* what a call is after its statement failed
Failed(c) ==
    LET st == Statements(c.fn)[Position(c)]
    IN ReturnErr(c, st.call, st.msg, "error")

FlowCall(s, fn) ==
    /\ calls[s].pc = "idle"
    /\ calls' = [calls EXCEPT ![s] =
                   [Idle EXCEPT !.fn = fn, !.pc = Statements(fn)[1].pc]]
    /\ UNCHANGED <<main, KernelcoinParams, wallets, reqs>>

\* a statement that waits for the callers of the other calls: it runs only
\* once every other call that has returned was taken by its caller
FlowContinueWaits(s) ==
    /\ InFlight(s)
    /\ \A t \in Slots \ {s} : calls[t].pc # "returned"
    /\ calls' = [calls EXCEPT ![s] = Continued(@)]
    /\ UNCHANGED <<main, KernelcoinParams, wallets, reqs>>

FlowContinue(s) ==
    /\ InFlight(s)
    /\ calls' = [calls EXCEPT ![s] = Continued(@)]
    /\ UNCHANGED <<main, KernelcoinParams, wallets, reqs>>

FlowFail(s) ==
    /\ InFlight(s)
    /\ Statements(calls[s].fn)[Position(calls[s])].msg # ""
    /\ calls' = [calls EXCEPT ![s] = Failed(@)]
    /\ UNCHANGED <<main, KernelcoinParams, wallets, reqs>>

\* the next statement of the call in slot s
FlowStep(s) == FlowContinue(s) \/ FlowFail(s)

FlowNext ==
    \E s \in Slots :
        \/ FlowCall(s, "GenerateNewWallet")
        \/ FlowCall(s, "GenerateWalletFromMnemonic")
        \/ FlowContinue(s)
        \/ FlowFail(s)
        \/ Release(s)

FlowSpec == Init /\ [][FlowNext]_vars /\ \A s \in Slots : WF_vars(FlowStep(s))

\* every step Spec takes on a call in flight is a step of its control flow:
\* position, error message and library calls made change as FlowContinue
\* or FlowFail change them, and no other call changes
FlowRefinement ==
    [][\A s \in Slots :
         calls'[s] # calls[s] /\ InFlight(s) =>
            LET flow(c) == <<c.pc, c.err, c.steps>>
            IN /\ \/ flow(calls'[s]) = flow(Continued(calls[s]))
                  \/ /\ Statements(calls[s].fn)[Position(calls[s])].msg # ""
                     /\ flow(calls'[s]) = flow(Failed(calls[s]))
               /\ \A t \in Slots \ {s} : calls'[t] = calls[t]]_vars

(***************************************************************************)
(* The HTTP server (main.go) and its JSON-RPC client (rpc_client.go).      *)
(* net/http serves every request on a goroutine of its own: the request in *)
(* slot s runs its handler there, and a handler that calls an entry point  *)
(* of wallet.go runs that call in calls[s].  The daemon is outside the     *)
(* program: what it answers to a JSON-RPC request is left open.            *)
(***************************************************************************)
\* the routes of main.go 735-751 that take key material, send coins or ask
\* the daemon about an address
Routes ==
    {"/api/send", "/api/import", "/api/import-mnemonic", "/api/new-wallet",
     "/api/new-address", "/api/getnewaddress", "/api/generate-address",
     "/api/validateaddress"}

\* a request body: whether it decodes as JSON, and the members the handlers
\* read from it (a member that is absent decodes to the zero value;
\* hasMnemonic tells an absent "mnemonic" from an empty one).  The members
\* "address_type", "type" and "address" of the address routes are absent
\* unless a body is given them.
Body(decodes, to_address, amount, wif, hasMnemonic, mnemonic) ==
    [decodes |-> decodes, to_address |-> to_address, amount |-> amount,
     wif |-> wif, hasMnemonic |-> hasMnemonic, mnemonic |-> mnemonic,
     address_type |-> "", type |-> "", address |-> ""]

UndecodableBody == Body(FALSE, "", 0, "", FALSE, <<>>)

\* recipient addresses a client names
ToAddresses == {"KAddressA", "KAddressB"}

\* the mnemonics clients send: one that validates, one with a changed last
\* word, and the empty text
ServerMnemonics ==
    LET m == NewMnemonic(EntropySample(0)).mnemonic
    IN {m, WithWord(m, 12, (m[Len(m)] + 1) % 2048), <<>>}

\* the bodies clients send to a route
BodiesOf(route) ==
    {UndecodableBody} \cup
    CASE route = "/api/send" ->
           {Body(TRUE, a, 1, "", FALSE, <<>>) : a \in ToAddresses}
      [] route = "/api/import" ->
           {Body(TRUE, "", 0, "client-wif", FALSE, <<>>)}
      [] route = "/api/import-mnemonic" ->
           {Body(TRUE, "", 0, "", TRUE, m) : m \in ServerMnemonics}
      [] route = "/api/new-address" ->
           {Body(TRUE, "", 0, "", TRUE, m) : m \in ServerMnemonics}
           \cup {Body(TRUE, "", 0, "", FALSE, <<>>)}
      [] route = "/api/getnewaddress" ->
           {[Body(TRUE, "", 0, "", FALSE, <<>>) EXCEPT !.address_type = "bech32"]}
      [] route = "/api/generate-address" ->
           {[Body(TRUE, "", 0, "", FALSE, <<>>) EXCEPT !.type = "legacy"]}
      [] route = "/api/validateaddress" ->
           {[Body(TRUE, "", 0, "", FALSE, <<>>) EXCEPT !.address = a] : a \in ToAddresses}
      [] OTHER -> {}

\* the requests clients send: POSTs with a body, and GETs and PUTs (which
\* here carry none)
HTTPRequests ==
    UNION {{[route |-> route, method |-> "POST", body |-> b] : b \in BodiesOf(route)}
           \cup {[route |-> route, method |-> m, body |-> UndecodableBody] :
                    m \in {"GET", "PUT"}} :
           route \in Routes}

(***************************************************************************)
(* encoding/json: a response is the JSON object a value encodes to.  A     *)
(* struct field tagged omitempty is left out when it holds its zero value. *)
(***************************************************************************)
Field(name, value, omitted) == [name |-> name, value |-> value, omitted |-> omitted]

\* a string field tagged `json:"name,omitempty"`
OmitEmpty(name, str) == Field(name, str, str = "")

\* the same for a string the model holds as a sequence of characters
OmitEmptyText(name, text) == Field(name, text, text = <<>>)

\* json.NewEncoder(w).Encode(v): the members of the object written
Encode(fields) ==
    LET kept == {i \in 1..Len(fields) : ~fields[i].omitted}
    IN [name \in {fields[i].name : i \in kept} |->
          fields[CHOOSE i \in kept : fields[i].name = name].value]

\* map[string]string{"error": "POST only"}
PostOnly == Encode(<<Field("error", "POST only", FALSE)>>)

SendTransactionResponse(Success, Txid, Error) ==
    Encode(<<Field("success", Success, FALSE), OmitEmpty("txid", Txid),
             OmitEmpty("error", Error)>>)

ImportKeyResponse(Success, Error) ==
    Encode(<<Field("success", Success, FALSE), OmitEmpty("error", Error)>>)

MnemonicToWIFResponse(Success, WIF, Error) ==
    Encode(<<Field("success", Success, FALSE), OmitEmptyText("wif", WIF),
             OmitEmpty("error", Error)>>)

NewAddressResponse(Success, LegacyAddress, SegWitAddress, Error) ==
    Encode(<<Field("success", Success, FALSE),
             OmitEmptyText("legacy_address", LegacyAddress),
             OmitEmptyText("segwit_address", SegWitAddress),
             OmitEmpty("error", Error)>>)

NewWalletResponse(Success, Mnemonic, PrivateKeyWIF, LegacyAddress, SegWitAddress, Error) ==
    Encode(<<Field("success", Success, FALSE),
             OmitEmptyText("mnemonic", Mnemonic),
             OmitEmptyText("private_key_wif", PrivateKeyWIF),
             OmitEmptyText("legacy_address", LegacyAddress),
             OmitEmptyText("segwit_address", SegWitAddress),
             OmitEmpty("error", Error)>>)

(***************************************************************************)
(* The JSON-RPC client (rpc_client.go).                                    *)
(***************************************************************************)
\* a JSON value of a reply: its type, its text when it is a string, and
\* when it is an object its "isvalid" member ("absent", "true", "false", or
\* "other" for a member that is not a bool) and its "mine" member (whether
\* it is there as an object, and then the three amounts in it, each a
\* number or not).  An object has no "mine" member unless it is given one.
Json(type, str, isvalid) ==
    [type |-> type, str |-> str, isvalid |-> isvalid,
     mine |-> [present |-> FALSE,
               trusted |-> [number |-> FALSE, val |-> 0],
               untrusted_pending |-> [number |-> FALSE, val |-> 0],
               immature |-> [number |-> FALSE, val |-> 0]]]

Null == Json("null", "", "absent")

\* what comes back for one request: whether the request could be built
\* (json.Marshal, http.NewRequest) and the POST went through (client.Do),
\* whether the body could be read (io.ReadAll) and parsed (json.Unmarshal),
\* and the result and error members of the response
Reply(transport, parses, result, error) ==
    [transport |-> transport, parses |-> parses, result |-> result, error |-> error]

Replies ==
    {Reply("no request", FALSE, Null, Null),
     Reply("post failed", FALSE, Null, Null),
     Reply("read failed", FALSE, Null, Null),
     Reply("ok", FALSE, Null, Null)}
    \cup {Reply("ok", TRUE, r, Null) :
            r \in {Null, Json("string", "", "absent"),
                   Json("string", "txid-9f2c", "absent"),
                   Json("number", "", "absent"),
                   Json("object", "", "absent"), Json("object", "", "other"),
                   Json("object", "", "true"), Json("object", "", "false")}}
    \cup {Reply("ok", TRUE, r, Json("object", "", "absent")) :
            r \in {Null, Json("string", "txid-9f2c", "absent"),
                   Json("object", "", "true")}}

\* a call that hands back the result member of a response together with
\* the error the response carries
Call_resultWithError(reply) ==
    IF reply.transport = "no request"
    THEN [result |-> Null, err |-> "failed to create request"]
    ELSE IF reply.transport = "post failed"
    THEN [result |-> Null, err |-> "RPC POST failed"]
    ELSE IF reply.transport = "read failed"
    THEN [result |-> Null, err |-> "RPC read error"]
    ELSE IF ~reply.parses
    THEN [result |-> Null, err |-> "unmarshal error"]
    ELSE IF reply.error # Null
    THEN [result |-> reply.result, err |-> "RPC error"]
    ELSE [result |-> reply.result, err |-> "nil"]

\* (c *KernelcoinRPCClient) call: the result, or the error ("nil" for none)
Call(reply) ==
    IF reply.transport = "no request"
    THEN [result |-> Null, err |-> "failed to create request"]
    ELSE IF reply.transport = "post failed"
    THEN [result |-> Null, err |-> "RPC POST failed"]
    ELSE IF reply.transport = "read failed"
    THEN [result |-> Null, err |-> "RPC read error"]
    ELSE IF ~reply.parses
    THEN [result |-> Null, err |-> "unmarshal error"]
    ELSE IF reply.error # Null
    THEN [result |-> Null, err |-> "RPC error"]
    ELSE [result |-> reply.result, err |-> "nil"]

\* (c *KernelcoinRPCClient) ImportPrivateKey
ImportPrivateKey(reply) == Call(reply)

\* (c *KernelcoinRPCClient) SendToAddress
SendToAddress(reply) ==
    LET r == Call(reply)
    IN IF r.err # "nil" THEN [txid |-> "", err |-> r.err]
       ELSE IF r.result.type = "string" THEN [txid |-> r.result.str, err |-> "nil"]
       ELSE [txid |-> "", err |-> "unexpected txid type"]

\* (c *KernelcoinRPCClient) ValidateAddress
ValidateAddress(reply) ==
    LET r == Call(reply)
    IN IF r.err # "nil" THEN [valid |-> FALSE, err |-> r.err]
       ELSE IF r.result.type # "object"
       THEN [valid |-> FALSE, err |-> "unexpected validateaddress type"]
       ELSE IF r.result.isvalid \in {"true", "false"}
       THEN [valid |-> r.result.isvalid = "true", err |-> "nil"]
       ELSE [valid |-> FALSE, err |-> "validateaddress missing isvalid"]

\* (c *KernelcoinRPCClient) GetNewAddress
GetNewAddress(reply) ==
    LET r == Call(reply)
    IN IF r.err # "nil" THEN [addr |-> "", err |-> r.err]
       ELSE IF r.result.type = "string" THEN [addr |-> r.result.str, err |-> "nil"]
       ELSE [addr |-> "", err |-> "unexpected getnewaddress response type"]

\* one JSON-RPC request a handler made, with what came back and what
\* `call` returned for it (address_type is the second parameter of
\* getnewaddress, after the empty label)
Exchange(method, address, amount, wif, reply) ==
    [method |-> method, address |-> address, amount |-> amount, wif |-> wif,
     address_type |-> "", reply |-> reply, returned |-> Call(reply)]

(***************************************************************************)
(* The handlers.  A request is received, handled, answered (pc "done",     *)
(* with the status and the JSON object written) and then gone.  `rpc`      *)
(* lists the JSON-RPC requests its handler has made so far.                *)
(***************************************************************************)
\* the request in slot s is on `route` and its handler is at `pc`
Handling(s, route, pc) == reqs[s].route = route /\ reqs[s].pc = pc

\* w.WriteHeader(status); json.NewEncoder(w).Encode(response); return
Respond(r, status, response) ==
    [r EXCEPT !.pc = "done", !.status = status, !.response = response]

\* net/http hands a request to the handler of its route
Receive(s, request) ==
    /\ main.pc = "serving"
    /\ reqs[s].pc = "free"
    /\ calls[s].pc = "idle"
    /\ reqs' = [reqs EXCEPT ![s] =
                  [NoRequest EXCEPT !.route = request.route,
                                    !.method = request.method,
                                    !.body = request.body,
                                    !.pc = "received"]]
    /\ UNCHANGED <<main, KernelcoinParams, calls, wallets>>

\* a send handler that goes on to send unless validation said "invalid": an
\* error from validateaddress does not stop it
HandleSendTransaction_validateLax(s) ==
    /\ Handling(s, "/api/send", "received")
    /\ LET r == reqs[s]
       IN IF r.method # "POST"
          THEN reqs' = [reqs EXCEPT ![s] = Respond(@, 405, PostOnly)]
          ELSE IF ~r.body.decodes
          THEN reqs' = [reqs EXCEPT ![s] =
                          Respond(@, 400, SendTransactionResponse(FALSE, "", "Invalid request format"))]
          ELSE \E reply \in Replies :
                 LET v == ValidateAddress(reply)
                     made == Append(r.rpc, Exchange("validateaddress", r.body.to_address, 0, "", reply))
                 IN reqs' = [reqs EXCEPT ![s] =
                               IF v.err = "nil" /\ ~v.valid
                               THEN Respond([@ EXCEPT !.rpc = made], 400,
                                            SendTransactionResponse(FALSE, "", "Invalid recipient address"))
                               ELSE [@ EXCEPT !.rpc = made, !.pc = "send"]]
    /\ UNCHANGED <<main, KernelcoinParams, calls, wallets>>

\* HandleSendTransaction up to the check of the recipient address
\* (main.go 186-221)
HandleSendTransaction_validate(s) ==
    /\ Handling(s, "/api/send", "received")
    /\ LET r == reqs[s]
       IN IF r.method # "POST"
          THEN reqs' = [reqs EXCEPT ![s] = Respond(@, 405, PostOnly)]
          ELSE IF ~r.body.decodes
          THEN reqs' = [reqs EXCEPT ![s] =
                          Respond(@, 400, SendTransactionResponse(FALSE, "", "Invalid request format"))]
          ELSE \E reply \in Replies :
                 LET v == ValidateAddress(reply)
                     made == Append(r.rpc, Exchange("validateaddress", r.body.to_address, 0, "", reply))
                 IN reqs' = [reqs EXCEPT ![s] =
                               IF v.err # "nil" \/ ~v.valid
                               THEN Respond([@ EXCEPT !.rpc = made], 400,
                                            SendTransactionResponse(FALSE, "", "Invalid recipient address"))
                               ELSE [@ EXCEPT !.rpc = made, !.pc = "send"]]
    /\ UNCHANGED <<main, KernelcoinParams, calls, wallets>>

\* a send that is tried once more when it failed
HandleSendTransaction_sendRetry(s) ==
    /\ Handling(s, "/api/send", "send")
    /\ LET r == reqs[s]
       IN \E reply \in Replies :
            LET t == SendToAddress(reply)
                made == Append(r.rpc, Exchange("sendtoaddress", r.body.to_address, r.body.amount, "", reply))
            IN reqs' = [reqs EXCEPT ![s] =
                          IF t.err # "nil" /\ Len(r.rpc) < 2
                          THEN [@ EXCEPT !.rpc = made]
                          ELSE IF t.err # "nil"
                          THEN Respond([@ EXCEPT !.rpc = made], 400,
                                       SendTransactionResponse(FALSE, "", "Failed to send transaction: " \o t.err))
                          ELSE Respond([@ EXCEPT !.rpc = made], 200,
                                       SendTransactionResponse(TRUE, t.txid, ""))]
    /\ UNCHANGED <<main, KernelcoinParams, calls, wallets>>

\* HandleSendTransaction from the send on (main.go 223-242)
HandleSendTransaction_send(s) ==
    /\ Handling(s, "/api/send", "send")
    /\ LET r == reqs[s]
       IN \E reply \in Replies :
            LET t == SendToAddress(reply)
                made == Append(r.rpc, Exchange("sendtoaddress", r.body.to_address, r.body.amount, "", reply))
            IN reqs' = [reqs EXCEPT ![s] =
                          IF t.err # "nil"
                          THEN Respond([@ EXCEPT !.rpc = made], 400,
                                       SendTransactionResponse(FALSE, "", "Failed to send transaction: " \o t.err))
                          ELSE Respond([@ EXCEPT !.rpc = made], 200,
                                       SendTransactionResponse(TRUE, t.txid, ""))]
    /\ UNCHANGED <<main, KernelcoinParams, calls, wallets>>

\* HandleImportKey (main.go 245-284)
HandleImportKey(s) ==
    /\ Handling(s, "/api/import", "received")
    /\ LET r == reqs[s]
       IN IF r.method # "POST"
          THEN reqs' = [reqs EXCEPT ![s] = Respond(@, 405, PostOnly)]
          ELSE IF ~r.body.decodes
          THEN reqs' = [reqs EXCEPT ![s] =
                          Respond(@, 400, ImportKeyResponse(FALSE, "Invalid request format"))]
          ELSE \E reply \in Replies :
                 LET i == ImportPrivateKey(reply)
                     made == Append(r.rpc, Exchange("importprivkey", "", 0, r.body.wif, reply))
                 IN reqs' = [reqs EXCEPT ![s] =
                               IF i.err # "nil"
                               THEN Respond([@ EXCEPT !.rpc = made], 400,
                                            ImportKeyResponse(FALSE, "Failed to import key: " \o i.err))
                               ELSE Respond([@ EXCEPT !.rpc = made], 200,
                                            ImportKeyResponse(TRUE, ""))]
    /\ UNCHANGED <<main, KernelcoinParams, calls, wallets>>

\* HandleNewWallet up to its call of GenerateNewWallet (main.go 287-297)
HandleNewWallet_call(s) ==
    /\ Handling(s, "/api/new-wallet", "received")
    /\ IF reqs[s].method # "POST"
       THEN /\ reqs' = [reqs EXCEPT ![s] = Respond(@, 405, PostOnly)]
            /\ UNCHANGED calls
       ELSE /\ reqs' = [reqs EXCEPT ![s].pc = "generating"]
            /\ calls' = [calls EXCEPT ![s] =
                           [Idle EXCEPT !.fn = "GenerateNewWallet", !.pc = "entropy"]]
    /\ UNCHANGED <<main, KernelcoinParams, wallets>>

\* a handler that keeps the wallet it generated in a session of the
\* server's map, under the wallet's legacy address
HandleNewWallet_returnKept(s) ==
    /\ Handling(s, "/api/new-wallet", "generating")
    /\ calls[s].pc = "returned"
    /\ LET c == calls[s]
       IN /\ reqs' = [reqs EXCEPT ![s] =
                        IF c.err # "nil"
                        THEN Respond(@, 500,
                                     NewWalletResponse(FALSE, <<>>, <<>>, <<>>, <<>>,
                                                       "Failed to generate wallet: " \o c.err))
                        ELSE Respond(@, 200,
                                     NewWalletResponse(TRUE, c.wallet[1].Mnemonic,
                                                       c.wallet[1].PrivateKeyWIF,
                                                       c.wallet[1].LegacyAddress,
                                                       c.wallet[1].SegWitAddress, ""))]
          /\ wallets' = IF c.err # "nil" THEN wallets
                        ELSE wallets \cup {[ID |-> c.wallet[1].LegacyAddress,
                                            Wallet |-> c.wallet]}
    /\ calls' = [calls EXCEPT ![s] = Idle]
    /\ UNCHANGED <<main, KernelcoinParams>>

\* HandleNewWallet from the return of GenerateNewWallet on
\* (main.go 297-318)
HandleNewWallet_return(s) ==
    /\ Handling(s, "/api/new-wallet", "generating")
    /\ calls[s].pc = "returned"
    /\ LET c == calls[s]
       IN reqs' = [reqs EXCEPT ![s] =
                     IF c.err # "nil"
                     THEN Respond(@, 500,
                                  NewWalletResponse(FALSE, <<>>, <<>>, <<>>, <<>>,
                                                    "Failed to generate wallet: " \o c.err))
                     ELSE Respond(@, 200,
                                  NewWalletResponse(TRUE, c.wallet[1].Mnemonic,
                                                    c.wallet[1].PrivateKeyWIF,
                                                    c.wallet[1].LegacyAddress,
                                                    c.wallet[1].SegWitAddress, ""))]
    /\ calls' = [calls EXCEPT ![s] = Idle]
    /\ UNCHANGED <<main, KernelcoinParams, wallets>>

\* HandleNewAddress up to its call of GenerateWalletFromMnemonic
\* (main.go 321-354)
HandleNewAddress_call(s) ==
    /\ Handling(s, "/api/new-address", "received")
    /\ LET r == reqs[s]
       IN IF r.method # "POST"
          THEN /\ reqs' = [reqs EXCEPT ![s] = Respond(@, 405, PostOnly)]
               /\ UNCHANGED calls
          ELSE IF ~r.body.decodes
          THEN /\ reqs' = [reqs EXCEPT ![s] =
                             Respond(@, 400, NewAddressResponse(FALSE, <<>>, <<>>, "Invalid request format"))]
               /\ UNCHANGED calls
          ELSE IF ~r.body.hasMnemonic \/ r.body.mnemonic = <<>>
          THEN /\ reqs' = [reqs EXCEPT ![s] =
                             Respond(@, 400, NewAddressResponse(FALSE, <<>>, <<>>, "Mnemonic is required"))]
               /\ UNCHANGED calls
          ELSE /\ reqs' = [reqs EXCEPT ![s].pc = "generating"]
               /\ calls' = [calls EXCEPT ![s] =
                              [Idle EXCEPT !.fn = "GenerateWalletFromMnemonic",
                                           !.pc = "validate",
                                           !.mnemonic = r.body.mnemonic]]
    /\ UNCHANGED <<main, KernelcoinParams, wallets>>

\* HandleNewAddress from the return of GenerateWalletFromMnemonic on
\* (main.go 354-373)
HandleNewAddress_return(s) ==
    /\ Handling(s, "/api/new-address", "generating")
    /\ calls[s].pc = "returned"
    /\ LET c == calls[s]
       IN reqs' = [reqs EXCEPT ![s] =
                     IF c.err # "nil"
                     THEN Respond(@, 400,
                                  NewAddressResponse(FALSE, <<>>, <<>>,
                                                     "Failed to generate address: " \o c.err))
                     ELSE Respond(@, 200,
                                  NewAddressResponse(TRUE, c.wallet[1].LegacyAddress,
                                                     c.wallet[1].SegWitAddress, ""))]
    /\ calls' = [calls EXCEPT ![s] = Idle]
    /\ UNCHANGED <<main, KernelcoinParams, wallets>>

\* HandleMnemonicToWIF up to its call of GenerateWalletFromMnemonic
\* (main.go 611-644)
HandleMnemonicToWIF_call(s) ==
    /\ Handling(s, "/api/import-mnemonic", "received")
    /\ LET r == reqs[s]
       IN IF r.method # "POST"
          THEN /\ reqs' = [reqs EXCEPT ![s] = Respond(@, 405, PostOnly)]
               /\ UNCHANGED calls
          ELSE IF ~r.body.decodes
          THEN /\ reqs' = [reqs EXCEPT ![s] =
                             Respond(@, 400, MnemonicToWIFResponse(FALSE, <<>>, "Invalid request format"))]
               /\ UNCHANGED calls
          ELSE IF r.body.mnemonic = <<>>
          THEN /\ reqs' = [reqs EXCEPT ![s] =
                             Respond(@, 400, MnemonicToWIFResponse(FALSE, <<>>, "Mnemonic phrase is required"))]
               /\ UNCHANGED calls
          ELSE /\ reqs' = [reqs EXCEPT ![s].pc = "generating"]
               /\ calls' = [calls EXCEPT ![s] =
                              [Idle EXCEPT !.fn = "GenerateWalletFromMnemonic",
                                           !.pc = "validate",
                                           !.mnemonic = r.body.mnemonic]]
    /\ UNCHANGED <<main, KernelcoinParams, wallets>>

\* a handler that imports the key it derived into the daemon's wallet
HandleMnemonicToWIF_returnImports(s) ==
    /\ Handling(s, "/api/import-mnemonic", "generating")
    /\ calls[s].pc = "returned"
    /\ LET c == calls[s]
       IN \E reply \in Replies :
            reqs' = [reqs EXCEPT ![s] =
                       IF c.err # "nil"
                       THEN Respond(@, 400,
                                    MnemonicToWIFResponse(FALSE, <<>>,
                                                          "Failed to convert mnemonic: " \o c.err))
                       ELSE Respond([@ EXCEPT !.rpc =
                                        Append(@, Exchange("importprivkey", "", 0,
                                                           c.wallet[1].PrivateKeyWIF, reply))],
                                    200,
                                    MnemonicToWIFResponse(TRUE, c.wallet[1].PrivateKeyWIF, ""))]
    /\ calls' = [calls EXCEPT ![s] = Idle]
    /\ UNCHANGED <<main, KernelcoinParams, wallets>>

\* HandleMnemonicToWIF from the return of GenerateWalletFromMnemonic on
\* (main.go 644-662)
HandleMnemonicToWIF_return(s) ==
    /\ Handling(s, "/api/import-mnemonic", "generating")
    /\ calls[s].pc = "returned"
    /\ LET c == calls[s]
       IN reqs' = [reqs EXCEPT ![s] =
                     IF c.err # "nil"
                     THEN Respond(@, 400,
                                  MnemonicToWIFResponse(FALSE, <<>>,
                                                        "Failed to convert mnemonic: " \o c.err))
                     ELSE Respond(@, 200,
                                  MnemonicToWIFResponse(TRUE, c.wallet[1].PrivateKeyWIF, ""))]
    /\ calls' = [calls EXCEPT ![s] = Idle]
    /\ UNCHANGED <<main, KernelcoinParams, wallets>>

\* a handler that asks the daemon for an address whatever the method of
\* the request is
HandleGenerateAddress_anyMethod(s) ==
    /\ Handling(s, "/api/generate-address", "received")
    /\ LET r == reqs[s]
       IN IF r.method = "POST" /\ ~r.body.decodes
          THEN reqs' = [reqs EXCEPT ![s] =
                          Respond(@, 400,
                                  Encode(<<Field("success", FALSE, FALSE), OmitEmpty("address", ""),
                                           OmitEmpty("error", "Invalid request format")>>))]
          ELSE \E reply \in Replies :
                 LET a == GetNewAddress(reply)
                     made == Append(r.rpc, [Exchange("getnewaddress", "", 0, "", reply)
                                               EXCEPT !.address_type = r.body.type])
                 IN reqs' = [reqs EXCEPT ![s] =
                               IF a.err # "nil"
                               THEN Respond([@ EXCEPT !.rpc = made], 400,
                                            Encode(<<Field("success", FALSE, FALSE),
                                                     OmitEmpty("address", ""),
                                                     OmitEmpty("error", "Failed to generate address: " \o a.err)>>))
                               ELSE Respond([@ EXCEPT !.rpc = made], 200,
                                            Encode(<<Field("success", TRUE, FALSE),
                                                     OmitEmpty("address", a.addr),
                                                     OmitEmpty("error", "")>>))]
    /\ UNCHANGED <<main, KernelcoinParams, calls, wallets>>

\* HandleGetNewAddress (main.go 462-503); the response written is a
\* GetNewAddressResponse (main.go 102-106)
HandleGetNewAddress(s) ==
    /\ Handling(s, "/api/getnewaddress", "received")
    /\ LET r == reqs[s]
       IN IF r.method # "POST"
          THEN reqs' = [reqs EXCEPT ![s] = Respond(@, 405, PostOnly)]
          ELSE IF ~r.body.decodes
          THEN reqs' = [reqs EXCEPT ![s] =
                          Respond(@, 400,
                                  Encode(<<Field("success", FALSE, FALSE), OmitEmpty("address", ""),
                                           OmitEmpty("error", "Invalid request format")>>))]
          ELSE \E reply \in Replies :
                 LET a == GetNewAddress(reply)
                     made == Append(r.rpc, [Exchange("getnewaddress", "", 0, "", reply)
                                               EXCEPT !.address_type = r.body.address_type])
                 IN reqs' = [reqs EXCEPT ![s] =
                               IF a.err # "nil"
                               THEN Respond([@ EXCEPT !.rpc = made], 400,
                                            Encode(<<Field("success", FALSE, FALSE),
                                                     OmitEmpty("address", ""),
                                                     OmitEmpty("error", "Failed to generate address: " \o a.err)>>))
                               ELSE Respond([@ EXCEPT !.rpc = made], 200,
                                            Encode(<<Field("success", TRUE, FALSE),
                                                     OmitEmpty("address", a.addr),
                                                     OmitEmpty("error", "")>>))]
    /\ UNCHANGED <<main, KernelcoinParams, calls, wallets>>

\* HandleGenerateAddress (main.go 505-546); the response written is a
\* GenerateAddressResponse (main.go 112-116)
HandleGenerateAddress(s) ==
    /\ Handling(s, "/api/generate-address", "received")
    /\ LET r == reqs[s]
       IN IF r.method # "POST"
          THEN reqs' = [reqs EXCEPT ![s] = Respond(@, 405, PostOnly)]
          ELSE IF ~r.body.decodes
          THEN reqs' = [reqs EXCEPT ![s] =
                          Respond(@, 400,
                                  Encode(<<Field("success", FALSE, FALSE), OmitEmpty("address", ""),
                                           OmitEmpty("error", "Invalid request format")>>))]
          ELSE \E reply \in Replies :
                 LET a == GetNewAddress(reply)
                     made == Append(r.rpc, [Exchange("getnewaddress", "", 0, "", reply)
                                               EXCEPT !.address_type = r.body.type])
                 IN reqs' = [reqs EXCEPT ![s] =
                               IF a.err # "nil"
                               THEN Respond([@ EXCEPT !.rpc = made], 400,
                                            Encode(<<Field("success", FALSE, FALSE),
                                                     OmitEmpty("address", ""),
                                                     OmitEmpty("error", "Failed to generate address: " \o a.err)>>))
                               ELSE Respond([@ EXCEPT !.rpc = made], 200,
                                            Encode(<<Field("success", TRUE, FALSE),
                                                     OmitEmpty("address", a.addr),
                                                     OmitEmpty("error", "")>>))]
    /\ UNCHANGED <<main, KernelcoinParams, calls, wallets>>

\* HandleValidateAddress (main.go 548-587); the response written is a
\* ValidateAddressResponse (main.go 122-125), and an error of the daemon
\* call is answered without a WriteHeader, so with status 200
HandleValidateAddress(s) ==
    /\ Handling(s, "/api/validateaddress", "received")
    /\ LET r == reqs[s]
       IN IF r.method # "POST"
          THEN reqs' = [reqs EXCEPT ![s] = Respond(@, 405, PostOnly)]
          ELSE IF ~r.body.decodes
          THEN reqs' = [reqs EXCEPT ![s] =
                          Respond(@, 400,
                                  Encode(<<Field("isvalid", FALSE, FALSE),
                                           OmitEmpty("error", "Invalid request format")>>))]
          ELSE \E reply \in Replies :
                 LET v == ValidateAddress(reply)
                     made == Append(r.rpc, Exchange("validateaddress", r.body.address, 0, "", reply))
                 IN reqs' = [reqs EXCEPT ![s] =
                               IF v.err # "nil"
                               THEN Respond([@ EXCEPT !.rpc = made], 200,
                                            Encode(<<Field("isvalid", FALSE, FALSE),
                                                     OmitEmpty("error", "Validation error: " \o v.err)>>))
                               ELSE Respond([@ EXCEPT !.rpc = made], 200,
                                            Encode(<<Field("isvalid", v.valid, FALSE),
                                                     OmitEmpty("error", "")>>))]
    /\ UNCHANGED <<main, KernelcoinParams, calls, wallets>>

\* a startup that gives up when the key of WALLET_WIF cannot be imported
InitializeWalletFromEnv_fatal ==
    /\ main.pc = "start"
    /\ LET walletWIF == IF main.WALLET_WIF = <<>> THEN "" ELSE main.WALLET_WIF[1]
       IN IF walletWIF = ""
          THEN main' = [main EXCEPT !.pc = "initialized"]
          ELSE \E reply \in Replies :
                 main' = [main EXCEPT !.pc = IF Call(reply).err # "nil"
                                             THEN "exited" ELSE "initialized",
                                      !.rpc = Append(@, Exchange("importprivkey", "", 0,
                                                                 walletWIF, reply))]
    /\ UNCHANGED <<KernelcoinParams, calls, wallets, reqs>>

\* the response is with the client and the request is over
Served(s) ==
    /\ reqs[s].pc = "done"
    /\ reqs' = [reqs EXCEPT ![s] = NoRequest]
    /\ UNCHANGED <<main, KernelcoinParams, calls, wallets>>

ServerNext ==
    \E s \in Slots :
        \/ \E request \in HTTPRequests : Receive(s, request)
        \/ HandleSendTransaction_validate(s)
        \/ HandleSendTransaction_send(s)
        \/ HandleImportKey(s)
        \/ HandleNewWallet_call(s)
        \/ HandleNewWallet_return(s)
        \/ HandleNewAddress_call(s)
        \/ HandleNewAddress_return(s)
        \/ HandleMnemonicToWIF_call(s)
        \/ HandleMnemonicToWIF_return(s)
        \/ HandleGetNewAddress(s)
        \/ HandleGenerateAddress(s)
        \/ HandleValidateAddress(s)
        \/ Served(s)
        \/ New_entropy(s)
        \/ New_mnemonic(s)
        \/ New_seed(s)
        \/ New_masterKey(s)
        \/ New_purpose(s)
        \/ New_coinType(s)
        \/ New_account(s)
        \/ New_change(s)
        \/ New_addressKey(s)
        \/ New_privKey(s)
        \/ New_wif(s)
        \/ New_legacyAddr(s)
        \/ New_bech32Addr(s)
        \/ New_wallet(s)
        \/ From_validate(s)
        \/ From_seed(s)
        \/ From_masterKey(s)
        \/ From_purpose(s)
        \/ From_coinType(s)
        \/ From_account(s)
        \/ From_change(s)
        \/ From_addressKey(s)
        \/ From_privKey(s)
        \/ From_wif(s)
        \/ From_legacyAddr(s)
        \/ From_bech32Addr(s)
        \/ From_wallet(s)

ServerSpec == Init /\ [][ServerNext]_vars

(***************************************************************************)
(* The balance.  The amounts of a getbalances reply are float64 values and *)
(* the sums and differences taken of them are rounded to the nearest       *)
(* float64, ties to even.  A float64 has a significand of 53 bits; here it *)
(* has MantissaBits bits, and a value is held as the integer number of     *)
(* units of the smallest spacing.                                          *)
(***************************************************************************)
MantissaBits == 3

\* the float that is nearest to x, ties to the even significand: x is
\* rounded to a multiple of the first of step, 2 * step, ... for which the
\* quotient fits the significand
RECURSIVE Round(_, _)
Round(x, step) ==
    IF x < 0 THEN 0 - Round(0 - x, step)
    ELSE IF x >= (2 ^ MantissaBits) * step THEN Round(x, 2 * step)
    ELSE LET q == x \div step
             r == x % step
         IN IF 2 * r < step \/ (2 * r = step /\ q % 2 = 0)
            THEN q * step
            ELSE (q + 1) * step

\* (c *KernelcoinRPCClient) GetBalanceInfo: a member of "mine" that is
\* missing or not a number fails its type assertion and counts as 0
GetBalanceInfo(reply) ==
    LET r == Call(reply)
        none == [Confirmed |-> 0, Unconfirmed |-> 0, Total |-> 0]
    IN IF r.err # "nil" THEN [info |-> none, err |-> r.err]
       ELSE IF r.result.type # "object"
       THEN [info |-> none, err |-> "unexpected getbalances response type"]
       ELSE IF ~r.result.mine.present
       THEN [info |-> none, err |-> "getbalances missing 'mine' field"]
       ELSE LET mine == r.result.mine
                trusted == IF mine.trusted.number THEN mine.trusted.val ELSE 0
                untrustedPending == IF mine.untrusted_pending.number
                                    THEN mine.untrusted_pending.val ELSE 0
                immature == IF mine.immature.number THEN mine.immature.val ELSE 0
                confirmedBalance == trusted
                unconfirmedBalance == untrustedPending
                totalBalance == Round(Round(confirmedBalance + unconfirmedBalance, 1)
                                      + immature, 1)
            IN [info |-> [Confirmed |-> confirmedBalance,
                          Unconfirmed |-> unconfirmedBalance,
                          Total |-> totalBalance],
                err |-> "nil"]

\* HandleBalance (main.go 160-183), served for every method; the response
\* written is a BalanceResponse (main.go 31-36).  The daemon answers
\* getbalances as it may answer any call, or with an object that has a
\* "mine" object whose amounts are numbers or not.
HandleBalance(s) ==
    /\ Handling(s, "/api/balance", "received")
    /\ LET amounts(vals) == {[number |-> FALSE, val |-> 0]}
                              \cup {[number |-> TRUE, val |-> v] : v \in vals}
           withMine == {Reply("ok", TRUE,
                              [Json("object", "", "absent") EXCEPT
                                  !.mine = [present |-> TRUE, trusted |-> t,
                                            untrusted_pending |-> u, immature |-> i]],
                              Null) :
                          t \in amounts({4, 7}), u \in amounts({2}), i \in amounts({0, 1})}
       IN \E reply \in Replies \cup withMine :
            LET b == GetBalanceInfo(reply)
                balanceInfo == b.info
                made == Append(reqs[s].rpc, Exchange("getbalances", "", 0, "", reply))
            IN reqs' = [reqs EXCEPT ![s] =
                          IF b.err # "nil"
                          THEN Respond([@ EXCEPT !.rpc = made], 500,
                                       Encode(<<Field("error", "Failed to get balance", FALSE)>>))
                          ELSE Respond([@ EXCEPT !.rpc = made], 200,
                                       Encode(<<Field("total", balanceInfo.Total, FALSE),
                                                Field("confirmed", balanceInfo.Confirmed, FALSE),
                                                Field("unconfirmed", balanceInfo.Unconfirmed, FALSE),
                                                Field("immature",
                                                      Round(Round(balanceInfo.Total - balanceInfo.Confirmed, 1)
                                                            - balanceInfo.Unconfirmed, 1),
                                                      FALSE)>>))]
    /\ UNCHANGED <<main, KernelcoinParams, calls, wallets>>

(***************************************************************************)
(* Startup (main.go 780-826).  main makes the server, has it import the    *)
(* key of WALLET_WIF, and starts it; from then on requests are received.   *)
(* The process here serves /api/balance.                                   *)
(***************************************************************************)
\* InitializeWalletFromEnv (main.go 762-778) and the use main makes of the
\* error it returns (main.go 818-820): a warning in the log
InitializeWalletFromEnv ==
    /\ main.pc = "start"
    /\ LET walletWIF == IF main.WALLET_WIF = <<>> THEN "" ELSE main.WALLET_WIF[1]
       IN IF walletWIF = ""
          THEN main' = [main EXCEPT !.pc = "initialized"]
          ELSE \E reply \in Replies :
                 main' = [main EXCEPT !.pc = "initialized",
                                      !.rpc = Append(@, Exchange("importprivkey", "", 0,
                                                                 walletWIF, reply))]
    /\ UNCHANGED <<KernelcoinParams, calls, wallets, reqs>>

\* main calls StartServer (main.go 823-825, 730-753): http.ListenAndServe
\* serves, or returns an error at once and log.Fatalf ends the process
StartServer ==
    /\ main.pc = "initialized"
    /\ \E listens \in BOOLEAN :
         main' = [main EXCEPT !.pc = IF listens THEN "serving" ELSE "exited"]
    /\ UNCHANGED <<KernelcoinParams, calls, wallets, reqs>>

\* a process with WALLET_WIF unset, set to the empty string, or set to a key
StartupInit ==
    /\ main \in {[pc |-> "start", WALLET_WIF |-> env, rpc |-> <<>>] :
                   env \in {<<>>, <<"">>, <<"env-wif">>}}
    /\ KernelcoinParams = KernelcoinMainnet
    /\ calls = [s \in Slots |-> Idle]
    /\ wallets = {}
    /\ reqs = [s \in Slots |-> NoRequest]

StartupNext ==
    \/ InitializeWalletFromEnv
    \/ StartServer
    \/ \E s \in Slots :
         \/ \E m \in {"GET", "POST"} :
              Receive(s, [route |-> "/api/balance", method |-> m, body |-> UndecodableBody])
         \/ HandleBalance(s)
         \/ Served(s)

\* main is one goroutine that runs to its end: once InitializeWalletFromEnv
\* has returned, the call of StartServer is the next statement
StartupSpec == StartupInit /\ [][StartupNext]_vars /\ WF_vars(StartServer)

(***************************************************************************)
(* Properties.                                                             *)
(***************************************************************************)
\* the call in slot s has returned
Returned(s) == calls[s].pc = "returned"

\* the call in slot s has returned a wallet
ReturnedWallet(s) == Returned(s) /\ calls[s].wallet # <<>>

\* the wallet the call in slot s returned
WalletOf(s) == calls[s].wallet[1]

IsNew(s) == calls[s].fn = "GenerateNewWallet"

IsFrom(s) == calls[s].fn = "GenerateWalletFromMnemonic"

\* C1: two calls of GenerateWalletFromMnemonic with the same mnemonic, one
\* that validates, return the same error and, when they return wallets, the
\* same WIF, legacy address and segwit address, whatever else has run.
C1_Deterministic ==
    \A a \in Slots : \A b \in Slots :
        (/\ a # b
         /\ IsFrom(a) /\ Returned(a)
         /\ IsFrom(b) /\ Returned(b)
         /\ calls[a].mnemonic = calls[b].mnemonic
         /\ IsMnemonicValid(calls[a].mnemonic))
        => /\ calls[a].err = calls[b].err
           /\ Len(calls[a].wallet) = Len(calls[b].wallet)
           /\ ReturnedWallet(a) =>
                /\ WalletOf(a).PrivateKeyWIF = WalletOf(b).PrivateKeyWIF
                /\ WalletOf(a).LegacyAddress = WalletOf(b).LegacyAddress
                /\ WalletOf(a).SegWitAddress = WalletOf(b).SegWitAddress

\* two calls with the same valid mnemonic have both returned a wallet
C1_Witness ==
    \E a \in Slots : \E b \in Slots :
        /\ a # b
        /\ IsFrom(a) /\ ReturnedWallet(a)
        /\ IsFrom(b) /\ ReturnedWallet(b)
        /\ calls[a].mnemonic = calls[b].mnemonic

\* the library calls of the steps after validation have not been made and
\* their results are unset
NothingDerived(c) ==
    /\ \A i \in 1..Len(c.steps) : c.steps[i] = "IsMnemonicValid"
    /\ c.seed = <<>>
    /\ c.masterKey = NoKey /\ c.purpose = NoKey /\ c.coinType = NoKey
    /\ c.account = NoKey /\ c.change = NoKey /\ c.addressKey = NoKey
    /\ c.wif = NoWIF /\ c.pubKeyHash = <<>>
    /\ c.legacyAddr = NoAddressPubKeyHash
    /\ c.bech32Addr = NoAddressWitnessPubKeyHash

\* C2: GenerateWalletFromMnemonic validates the mnemonic before anything
\* else: until it has, nothing is derived; every later step comes after the
\* validation; and when the mnemonic does not validate the call has returned
\* "invalid mnemonic phrase" with no wallet, having run no later step.
C2_ValidationFirst ==
    \A s \in Slots :
        IsFrom(s) =>
            LET c == calls[s]
            IN /\ c.pc = "validate" => c.steps = <<>> /\ NothingDerived(c)
               /\ c.pc # "validate" =>
                    /\ c.steps # <<>>
                    /\ c.steps[1] = "IsMnemonicValid"
                    /\ \A i \in 2..Len(c.steps) : c.steps[i] # "IsMnemonicValid"
               /\ (c.pc # "validate" /\ ~IsMnemonicValid(c.mnemonic)) =>
                    /\ c.pc = "returned"
                    /\ c.err = "invalid mnemonic phrase"
                    /\ c.wallet = <<>>
                    /\ c.steps = <<"IsMnemonicValid">>
                    /\ NothingDerived(c)

\* a call with a mnemonic that does not validate has returned, and a call
\* with one that validates has gone on to derive
C2_Witness ==
    \E a \in Slots : \E b \in Slots :
        /\ IsFrom(a) /\ Returned(a) /\ ~IsMnemonicValid(calls[a].mnemonic)
        /\ calls[a].err = "invalid mnemonic phrase"
        /\ IsFrom(b) /\ calls[b].pc = "purpose"

\* the words of a text encode no entropy: the count is not one of BIP39's,
\* a word is not in the list, or the checksum bits are not those of the
\* entropy (re-encoding the entropy bits gives other words)
WrongWordCount(m) == Len(Fields(m)) \notin {12, 15, 18, 21, 24}

UnknownWord(m) == \E i \in 1..Len(Fields(m)) : Fields(m)[i] \notin WordList

ChecksumMismatch(m) ==
    /\ ~WrongWordCount(m)
    /\ ~UnknownWord(m)
    /\ LET words == Fields(m)
           n == Len(words)
           bits == [k \in 1..(11 * n) |->
                      (words[((k - 1) \div 11) + 1] \div Pow2(10 - ((k - 1) % 11))) % 2]
           entropy == BitsToBytes(SubSeq(bits, 1, 32 * (n \div 3)))
       IN Fields(NewMnemonic(entropy).mnemonic) # words

\* C3: a call of GenerateWalletFromMnemonic whose mnemonic has a word
\* outside the list, a word count that is not one of 12, 15, 18, 21, 24, or
\* checksum bits that do not match, fails at validation and returns no
\* wallet; so do the empty mnemonic and a 13-word mnemonic.
C3_Rejects ==
    \A s \in Slots :
        (/\ IsFrom(s)
         /\ calls[s].pc # "validate"
         /\ \/ WrongWordCount(calls[s].mnemonic)
            \/ UnknownWord(calls[s].mnemonic)
            \/ ChecksumMismatch(calls[s].mnemonic)
            \/ calls[s].mnemonic = <<>>
            \/ Len(Fields(calls[s].mnemonic)) = 13)
        => /\ Returned(s)
           /\ calls[s].err = "invalid mnemonic phrase"
           /\ calls[s].wallet = <<>>

\* a 13-word mnemonic and a mnemonic whose checksum does not match have
\* both been rejected
C3_Witness ==
    \E a \in Slots : \E b \in Slots :
        /\ IsFrom(a) /\ Returned(a) /\ Len(Fields(calls[a].mnemonic)) = 13
        /\ calls[a].err = "invalid mnemonic phrase"
        /\ IsFrom(b) /\ Returned(b) /\ ChecksumMismatch(calls[b].mnemonic)
        /\ calls[b].err = "invalid mnemonic phrase"

\* all eight fields of a wallet are set
Complete(w) ==
    /\ w.Mnemonic # <<>>
    /\ w.PrivateKeyHex # <<>>
    /\ w.PrivateKeyWIF # <<>>
    /\ w.PublicKeyHex # <<>>
    /\ w.LegacyAddress # <<>>
    /\ w.SegWitAddress # <<>>
    /\ w.PublicKeyHash # <<>>
    /\ w.DerivationPath # ""

\* C4: a call of either entry point returns a wallet with all eight fields
\* set and no error, or an error and no wallet.
C4_AllOrNothing ==
    \A s \in Slots :
        Returned(s) =>
            \/ /\ calls[s].wallet # <<>>
               /\ calls[s].err = "nil"
               /\ Complete(WalletOf(s))
            \/ /\ calls[s].wallet = <<>>
               /\ calls[s].err # "nil"

\* one call has returned a wallet and another has failed in the middle of
\* the derivation
C4_Witness ==
    \E a \in Slots : \E b \in Slots :
        /\ ReturnedWallet(a)
        /\ Returned(b)
        /\ calls[b].err = "failed to derive coin type"
        /\ calls[b].wallet = <<>>

\* the child indexes of m/44'/2'/0'/0/0, in order
FixedPath ==
    <<Index(TRUE, 44), Index(TRUE, 2), Index(TRUE, 0), Index(FALSE, 0), Index(FALSE, 0)>>

\* the extended keys of a call, from the master key to the address key
KeysOf(c) == <<c.masterKey, c.purpose, c.coinType, c.account, c.change, c.addressKey>>

\* the number of Derive calls a call has made
RECURSIVE DeriveCount(_)
DeriveCount(steps) ==
    IF steps = <<>> THEN 0
    ELSE (IF steps[1] = "Derive" THEN 1 ELSE 0) + DeriveCount(Tail(steps))

\* C5: both entry points derive along m/44'/2'/0'/0/0: each derived key is
\* the child, at the path's index and hardened flag for its level, of the
\* key of the step before; a returned wallet has made exactly the five
\* derivations, its private key is the key of the fifth, and its derivation
\* path reads "m/44'/2'/0'/0/0"; this holds whatever the caller passed.
C5_FixedPath ==
    \A s \in Slots :
        LET c == calls[s]
            keys == KeysOf(c)
        IN /\ \A i \in 1..5 :
                keys[i + 1] # NoKey =>
                    /\ keys[i] # NoKey
                    /\ keys[i + 1].childNum = FixedPath[i]
                    /\ keys[i + 1].depth = i
                    /\ keys[i + 1] = Derive(keys[i], FixedPath[i]).key
           /\ DeriveCount(c.steps) <= 5
           /\ ReturnedWallet(s) =>
                /\ DeriveCount(c.steps) = 5
                /\ c.addressKey # NoKey
                /\ HexDecode(WalletOf(s).PrivateKeyHex)
                     = SerializePrivKey(PrivKeyFromBytes(c.addressKey.key))
                /\ WalletOf(s).DerivationPath = "m/44'/2'/0'/0/0"

\* a generated and a restored wallet have both been returned
C5_Witness ==
    \E a \in Slots : \E b \in Slots :
        /\ IsNew(a) /\ ReturnedWallet(a) /\ calls[a].addressKey.depth = 5
        /\ IsFrom(b) /\ ReturnedWallet(b) /\ calls[b].addressKey.depth = 5

\* C6: in a returned wallet the payload of the legacy address, the witness
\* program of the segwit address and PublicKeyHash are the same 20 bytes,
\* the Hash160 of the compressed public key of the wallet's private key; the
\* segwit address has witness version 0, a 20-byte program and the
\* human-readable prefix of KernelcoinParams.
C6_SameKeyHash ==
    \A s \in Slots :
        ReturnedWallet(s) =>
            LET w == WalletOf(s)
                priv == PrivKeyFromBytes(HexDecode(w.PrivateKeyHex))
                h == Hash160(SerializeCompressed(PubKey(priv)))
                legacy == CheckDecode(w.LegacyAddress)
                segwit == DecodeSegWitAddress(w.SegWitAddress)
            IN /\ Len(h) = 20
               /\ legacy.err = "nil" /\ legacy.payload = h
               /\ segwit.err = "nil" /\ segwit.program = h
               /\ segwit.version = 0
               /\ segwit.hrp = KernelcoinParams.Bech32HRPSegwit
               /\ HexDecode(w.PublicKeyHash) = h
               /\ HexDecode(w.PublicKeyHex) = SerializeCompressed(PubKey(priv))

\* a wallet has been returned whose two addresses decode
C6_Witness ==
    \E s \in Slots :
        /\ ReturnedWallet(s)
        /\ CheckDecode(WalletOf(s).LegacyAddress).err = "nil"
        /\ DecodeSegWitAddress(WalletOf(s).SegWitAddress).err = "nil"

\* C7: when GenerateNewWallet has returned a wallet, a call of
\* GenerateWalletFromMnemonic with that wallet's mnemonic succeeds and
\* returns a wallet equal to it in every field.
C7_RestoreReproduces ==
    \A a \in Slots : \A b \in Slots :
        (/\ IsNew(a) /\ ReturnedWallet(a)
         /\ IsFrom(b) /\ Returned(b)
         /\ calls[b].mnemonic = WalletOf(a).Mnemonic)
        => /\ calls[b].err = "nil"
           /\ calls[b].wallet = calls[a].wallet

\* a generated wallet and the restore of its mnemonic have both returned
C7_Witness ==
    \E a \in Slots : \E b \in Slots :
        /\ IsNew(a) /\ ReturnedWallet(a)
        /\ IsFrom(b) /\ ReturnedWallet(b)
        /\ calls[b].mnemonic = WalletOf(a).Mnemonic

\* C8: the mnemonic GenerateNewWallet produces comes from 128 bits of
\* entropy, has 12 words of the list, passes validation, and decodes back to
\* the entropy it was made from; it is the Mnemonic of the returned wallet.
C8_GeneratedMnemonic ==
    \A s \in Slots :
        (IsNew(s) /\ calls[s].mnemonic # <<>>) =>
            LET c == calls[s]
                words == Fields(c.mnemonic)
            IN /\ 8 * Len(c.entropy) = 128
               /\ Len(words) = 12
               /\ \A i \in 1..12 : words[i] \in WordList
               /\ c.mnemonic = Join(words)
               /\ IsMnemonicValid(c.mnemonic)
               /\ EntropyFromMnemonic(c.mnemonic).entropy = c.entropy
               /\ ReturnedWallet(s) => WalletOf(s).Mnemonic = c.mnemonic

\* GenerateNewWallet has returned a wallet with its mnemonic
C8_Witness ==
    \E s \in Slots :
        /\ IsNew(s) /\ ReturnedWallet(s)
        /\ Len(Fields(WalletOf(s).Mnemonic)) = 12

\* C9: the package-level network parameters keep, in every state, the
\* values of their literal: no call of an entry point writes to them.
C9_ParamsFixed ==
    /\ KernelcoinParams.Name = "kernelcoin"
    /\ KernelcoinParams.Net = <<241, 200, 210, 253>>
    /\ KernelcoinParams.PubKeyHashAddrID = 45
    /\ KernelcoinParams.ScriptHashAddrID = 23
    /\ KernelcoinParams.PrivateKeyID = 28
    /\ KernelcoinParams.WitnessPubKeyHashAddrID = 6
    /\ KernelcoinParams.WitnessScriptHashAddrID = 10
    /\ KernelcoinParams.HDPrivateKeyID = <<119, 136, 173, 228>>
    /\ KernelcoinParams.HDPublicKeyID = <<119, 136, 178, 30>>
    /\ KernelcoinParams.Bech32HRPSegwit = <<"k", "c", "n">>

\* both entry points have run to the end, through every step that is given
\* the parameters
C9_Witness ==
    \E a \in Slots : \E b \in Slots :
        /\ IsNew(a) /\ ReturnedWallet(a)
        /\ IsFrom(b) /\ ReturnedWallet(b)
        /\ KernelcoinParams.PrivateKeyID = 28

\* the version bytes and prefix a wallet's text fields and a call's keys
\* carry are those of the parameters p
EncodedWith(s, p) ==
    LET w == WalletOf(s)
    IN /\ CheckDecode(w.PrivateKeyWIF).version = p.PrivateKeyID
       /\ CheckDecode(w.LegacyAddress).version = p.PubKeyHashAddrID
       /\ DecodeSegWitAddress(w.SegWitAddress).hrp = p.Bech32HRPSegwit
       /\ calls[s].masterKey.version = p.HDPrivateKeyID
       /\ calls[s].addressKey.version = p.HDPrivateKeyID

PathErrors ==
    <<"failed to derive purpose", "failed to derive coin type", "failed to derive account",
      "failed to derive change", "failed to derive address key">>

\* the key at the end of the path below k, from level i on, or the message
\* of the first level that fails
RECURSIVE WalkPath(_, _)
WalkPath(k, i) ==
    IF i > 5 THEN [err |-> "nil", key |-> k]
    ELSE LET r == Derive(k, FixedPath[i])
         IN IF r.err # "nil" THEN [err |-> PathErrors[i], key |-> NoKey]
            ELSE WalkPath(r.key, i + 1)

NoResult(msg) == [wallet |-> <<>>, err |-> msg]

\* what the pipeline from the seed on returns for a mnemonic when nothing
\* else runs
WalletAlone(mnemonic) ==
    LET master == NewMaster(NewSeed(mnemonic, <<>>), KernelcoinMainnet)
        leaf == WalkPath(master.key, 1)
        priv == ECPrivKey(leaf.key)
        wif == NewWIF(priv.priv, KernelcoinMainnet, TRUE)
        pubKey == PubKey(priv.priv)
        pubKeyHash == Hash160(SerializeCompressed(pubKey))
        legacy == NewAddressPubKeyHash(pubKeyHash, KernelcoinMainnet)
        segwit == NewAddressWitnessPubKeyHash(pubKeyHash, KernelcoinMainnet)
    IN IF master.err # "nil" THEN NoResult("failed to create master key")
       ELSE IF leaf.err # "nil" THEN NoResult(leaf.err)
       ELSE IF priv.err # "nil" THEN NoResult("failed to get private key")
       ELSE IF wif.err # "nil" THEN NoResult("failed to create WIF")
       ELSE IF legacy.err # "nil" THEN NoResult("failed to create legacy address")
       ELSE IF segwit.err # "nil" THEN NoResult("failed to create bech32 address")
       ELSE [wallet |-> <<[Mnemonic |-> mnemonic,
                           PrivateKeyHex |-> HexEncode(SerializePrivKey(priv.priv)),
                           PrivateKeyWIF |-> WIFString(wif.wif),
                           PublicKeyHex |-> HexEncode(SerializeCompressed(pubKey)),
                           LegacyAddress |-> EncodeAddressPubKeyHash(legacy.addr),
                           SegWitAddress |-> EncodeAddressWitnessPubKeyHash(segwit.addr),
                           PublicKeyHash |-> HexEncode(pubKeyHash),
                           DerivationPath |-> "m/44'/2'/0'/0/0"]>>,
             err |-> "nil"]

\* what a call returns when it runs alone: a restore of its mnemonic, a
\* generation from the entropy it drew
ResultAlone(c) ==
    IF c.fn = "GenerateWalletFromMnemonic"
    THEN IF IsMnemonicValid(c.mnemonic) THEN WalletAlone(c.mnemonic)
         ELSE NoResult("invalid mnemonic phrase")
    ELSE IF c.entropy = <<>> THEN NoResult("failed to generate entropy")
    ELSE IF NewMnemonic(c.entropy).err # "nil" THEN NoResult("failed to generate mnemonic")
    ELSE WalletAlone(NewMnemonic(c.entropy).mnemonic)

\* C11: concurrent calls share no mutable state: a step of one call changes
\* the locals of that call only, and under every interleaving a call
\* returns what it returns when run alone (a restore the wallet of its own
\* mnemonic).
C11_NoSharedState ==
    [][\A s \in Slots :
         calls'[s] # calls[s] =>
            /\ \A t \in Slots \ {s} : calls'[t] = calls[t]
            /\ calls'[s].pc = "returned" =>
                 [wallet |-> calls'[s].wallet, err |-> calls'[s].err] = ResultAlone(calls'[s])]_vars

\* a call has returned its wallet while a call on another mnemonic was in
\* the middle of its derivations
C11_Witness ==
    \E a \in Slots : \E b \in Slots :
        /\ ReturnedWallet(a)
        /\ calls[b].pc = "account"
        /\ calls[b].mnemonic # calls[a].mnemonic

\* the library calls of GenerateNewWallet, in order, and for each the
\* message of the error returned when it fails (NewSeed cannot fail)
NewSteps ==
    <<"NewEntropy", "NewMnemonic", "NewSeed", "NewMaster",
      "Derive", "Derive", "Derive", "Derive", "Derive",
      "ECPrivKey", "NewWIF", "NewAddressPubKeyHash", "NewAddressWitnessPubKeyHash">>

NewErrors ==
    <<"failed to generate entropy", "failed to generate mnemonic", "none",
      "failed to create master key">> \o PathErrors \o
    <<"failed to get private key", "failed to create WIF",
      "failed to create legacy address", "failed to create bech32 address">>

\* the statement at which the derivation of each level is pending
LevelPc == <<"purpose", "coinType", "account", "change", "addressKey">>

\* C12: a call of GenerateNewWallet makes its library calls in the fixed
\* order, each at most once; when one fails the call has returned at once,
\* with the message of that step wrapping the error the step gave, the
\* results of all later steps unset and no wallet; a derivation that fails
\* at its fixed index is not tried again at another index.
C12_FirstFailure ==
    \A s \in Slots :
        IsNew(s) =>
            LET c == calls[s]
                n == Len(c.steps)
                keys == KeysOf(c)
            IN /\ n <= Len(NewSteps)
               /\ c.steps = SubSeq(NewSteps, 1, n)
               /\ (Returned(s) /\ c.err # "nil") =>
                    /\ n >= 1
                    /\ c.err = NewErrors[n]
                    /\ c.cause # "nil"
                    /\ c.wallet = <<>>
                    /\ n <= 1 => c.entropy = <<>>
                    /\ n <= 2 => c.mnemonic = <<>>
                    /\ n <= 4 => c.masterKey = NoKey
                    /\ \A i \in 1..5 : n <= 4 + i => keys[i + 1] = NoKey
                    /\ \A i \in 1..5 : n = 4 + i => c.cause = Derive(keys[i], FixedPath[i]).err
                    /\ n <= 10 => c.privKey = 0
                    /\ n <= 11 => c.wif = NoWIF
                    /\ n <= 12 => c.legacyAddr = NoAddressPubKeyHash
                    /\ c.bech32Addr = NoAddressWitnessPubKeyHash
               /\ (c.seed # <<>> /\ c.pc # "masterKey"
                     /\ NewMaster(c.seed, KernelcoinParams).err # "nil") =>
                    Returned(s) /\ c.err = "failed to create master key"
               /\ \A i \in 1..5 :
                    (keys[i] # NoKey /\ c.pc # LevelPc[i]
                       /\ Derive(keys[i], FixedPath[i]).err # "nil") =>
                    Returned(s) /\ c.err = PathErrors[i]

\* one call of GenerateNewWallet has failed at the entropy source and
\* another at the coin-type derivation
C12_Witness ==
    \E a \in Slots : \E b \in Slots :
        /\ IsNew(a) /\ Returned(a) /\ calls[a].err = "failed to generate entropy"
        /\ IsNew(b) /\ Returned(b) /\ calls[b].err = "failed to derive coin type"
        /\ calls[b].cause = "ErrInvalidChild"

\* C15: the WIF of every returned wallet is the base58 text of 38 bytes:
\* the WIF version byte 28, the 32 bytes of the leaf private scalar (the
\* bytes PrivateKeyHex spells), the flag 1 for a compressed public key, and
\* the first 4 bytes of the double SHA-256 of those 34 bytes.
C15_WIFLayout ==
    \A s \in Slots :
        ReturnedWallet(s) =>
            LET w == WalletOf(s)
                raw == Base58Decode(w.PrivateKeyWIF)
            IN /\ Len(raw) = 38
               /\ raw[1] = 28
               /\ raw[1] = KernelcoinParams.PrivateKeyID
               /\ SubSeq(raw, 2, 33) = SerializePrivKey(PrivKeyFromBytes(calls[s].addressKey.key))
               /\ SubSeq(raw, 2, 33) = HexDecode(w.PrivateKeyHex)
               /\ raw[34] = 1
               /\ SubSeq(raw, 35, 38) = SubSeq(DoubleSHA256(SubSeq(raw, 1, 34)), 1, 4)
               /\ Base58Encode(raw) = w.PrivateKeyWIF

\* a generated and a restored wallet have been returned, with WIFs of
\* different keys
C15_Witness ==
    \E a \in Slots : \E b \in Slots :
        /\ IsNew(a) /\ ReturnedWallet(a)
        /\ IsFrom(b) /\ ReturnedWallet(b)
        /\ WalletOf(a).PrivateKeyWIF # WalletOf(b).PrivateKeyWIF
        /\ Len(Base58Decode(WalletOf(a).PrivateKeyWIF)) = 38

\* C16: the legacy address of every returned wallet is the base58 text of
\* 25 bytes: the P2PKH version byte 45, a 20-byte hash, and the first 4
\* bytes of the double SHA-256 of those 21 bytes.
C16_LegacyLayout ==
    \A s \in Slots :
        ReturnedWallet(s) =>
            LET w == WalletOf(s)
                raw == Base58Decode(w.LegacyAddress)
            IN /\ Len(raw) = 25
               /\ raw[1] = 45
               /\ raw[1] = KernelcoinParams.PubKeyHashAddrID
               /\ SubSeq(raw, 2, 21) = calls[s].pubKeyHash
               /\ Len(calls[s].pubKeyHash) = 20
               /\ SubSeq(raw, 22, 25) = SubSeq(DoubleSHA256(SubSeq(raw, 1, 21)), 1, 4)
               /\ Base58Encode(raw) = w.LegacyAddress

\* two wallets with different legacy addresses have been returned, one of
\* them restored
C16_Witness ==
    \E a \in Slots : \E b \in Slots :
        /\ ReturnedWallet(a)
        /\ IsFrom(b) /\ ReturnedWallet(b)
        /\ WalletOf(a).LegacyAddress # WalletOf(b).LegacyAddress
        /\ Base58Decode(WalletOf(b).LegacyAddress)[1] = 45

\* C17: every call of an entry point returns.  At every moment a call in
\* flight has a statement it can execute whatever the other calls are doing
\* (it waits for no lock, no I/O and no other call), it makes at most 13
\* library calls and never one it made before (no loop, no retry), and
\* once called it reaches its return.
C17_Returns ==
    /\ [](\A s \in Slots :
            /\ InFlight(s) => ENABLED FlowStep(s)
            /\ Len(calls[s].steps) <= 13
            /\ InFlight(s) => Len(calls[s].steps) = Position(calls[s]) - 1)
    /\ \A s \in Slots : InFlight(s) ~> Returned(s)

\* two calls are in flight at once, one at its seed and the other further
\* on, at the change level
C17_Witness ==
    \E a \in Slots : \E b \in Slots :
        /\ calls[a].pc = "seed"
        /\ calls[b].pc = "change"
        /\ Len(calls[b].steps) = 7

\* C18: what a restore returns depends on the words of the text and their
\* order only: two restores that returned a wallet for texts with the same
\* words in the same order, whatever the spaces between them, went through
\* the same seed and returned the same private key, WIF and addresses.
C18_WordsOnly ==
    \A a \in Slots : \A b \in Slots :
        (/\ IsFrom(a) /\ ReturnedWallet(a)
         /\ IsFrom(b) /\ ReturnedWallet(b)
         /\ Fields(calls[a].mnemonic) = Fields(calls[b].mnemonic)) =>
            /\ calls[a].seed = calls[b].seed
            /\ WalletOf(a).PrivateKeyHex = WalletOf(b).PrivateKeyHex
            /\ WalletOf(a).PrivateKeyWIF = WalletOf(b).PrivateKeyWIF
            /\ WalletOf(a).LegacyAddress = WalletOf(b).LegacyAddress
            /\ WalletOf(a).SegWitAddress = WalletOf(b).SegWitAddress

(***************************************************************************)
(* Properties of the server.                                               *)
(***************************************************************************)
\* the request in slot s has been answered
Answered(s) == reqs[s].pc = "done"

\* the JSON object `response` has the member `name` with the value `value`
Member(response, name, value) ==
    name \in DOMAIN response /\ response[name] = value

\* the places in the JSON-RPC log of the request in slot s where it called
\* `method`
CallsOf(s, method) ==
    {i \in 1..Len(reqs[s].rpc) : reqs[s].rpc[i].method = method}

\* the routes that generate or restore a wallet
WalletRoutes == {"/api/new-wallet", "/api/new-address", "/api/import-mnemonic"}

\* C13: generating or restoring a wallet makes no JSON-RPC request.  A
\* request on /api/new-wallet, /api/new-address or /api/import-mnemonic
\* never has a JSON-RPC request in its log; no step of GenerateNewWallet or
\* GenerateWalletFromMnemonic (a step that changes a call) adds one to any
\* log; importprivkey is only ever called by a request on /api/import, with
\* the WIF of that request's body, and sendtoaddress only by a request on
\* /api/send.
C13_NoDaemonCall ==
    /\ [](\A s \in Slots :
            /\ reqs[s].route \in WalletRoutes => reqs[s].rpc = <<>>
            /\ \A i \in CallsOf(s, "importprivkey") :
                 /\ reqs[s].route = "/api/import"
                 /\ reqs[s].rpc[i].wif = reqs[s].body.wif
            /\ CallsOf(s, "sendtoaddress") # {} => reqs[s].route = "/api/send")
    /\ [][\A s \in Slots :
            (calls'[s] # calls[s] \/ reqs[s].route \in WalletRoutes) =>
                reqs'[s].rpc = reqs[s].rpc \/ reqs'[s].pc = "free"]_vars

\* a restore on /api/import-mnemonic was answered with its WIF while a
\* request on /api/import has had its key imported by the daemon
C13_Witness ==
    \E a \in Slots : \E b \in Slots :
        /\ reqs[a].route = "/api/import-mnemonic" /\ Answered(a)
        /\ Member(reqs[a].response, "success", TRUE)
        /\ "wif" \in DOMAIN reqs[a].response
        /\ reqs[b].route = "/api/import" /\ Answered(b)
        /\ Member(reqs[b].response, "success", TRUE)
        /\ CallsOf(b, "importprivkey") = {1}

\* C14: no wallet is kept on the server.  The map of sessions is empty in
\* every state; once a request is answered the call that made its wallet is
\* gone, so the wallet is in the response and nowhere else; once the
\* response is with the client nothing of the request is left; and a step
\* of one request writes nothing another request holds.
C14_NothingKept ==
    /\ [](/\ wallets = {}
          /\ \A s \in Slots :
               /\ reqs[s].pc \in {"free", "received", "done"} => calls[s] = Idle
               /\ reqs[s].pc = "free" => reqs[s] = NoRequest)
    /\ [][\A s \in Slots :
            (reqs'[s] # reqs[s] \/ calls'[s] # calls[s]) =>
                \A t \in Slots \ {s} : reqs'[t] = reqs[t] /\ calls'[t] = calls[t]]_vars

\* a wallet was generated and answered on /api/new-wallet and another was
\* restored and answered on /api/new-address
C14_Witness ==
    \E a \in Slots : \E b \in Slots :
        /\ reqs[a].route = "/api/new-wallet" /\ Answered(a)
        /\ Member(reqs[a].response, "success", TRUE)
        /\ {"mnemonic", "private_key_wif"} \subseteq DOMAIN reqs[a].response
        /\ reqs[b].route = "/api/new-address" /\ Answered(b)
        /\ "legacy_address" \in DOMAIN reqs[b].response
        /\ wallets = {}

\* the daemon answered validateaddress with isvalid = true: the request went
\* through, the response parsed, its error member is null and its result
\* is an object whose isvalid member is the bool true
SaidValid(reply) ==
    /\ reply.transport = "ok" /\ reply.parses
    /\ reply.error = Null
    /\ reply.result.type = "object" /\ reply.result.isvalid = "true"

\* C19: in a request on /api/send, sendtoaddress is called only right after
\* a validateaddress of the same request, for the address of the request's
\* body, that the daemon answered with isvalid = true and no error.  A
\* request that is not a POST, whose body does not decode, or whose
\* validateaddress failed or did not say valid, is answered with an error
\* (status 405 or 400 and an "error" member, success not true) and has
\* called no sendtoaddress.
C19_ValidateThenSend ==
    \A s \in Slots :
        reqs[s].route = "/api/send" =>
            LET r == reqs[s]
                log == r.rpc
            IN /\ \A i \in 1..Len(log) : log[i].method \in {"validateaddress", "sendtoaddress"}
               /\ \A i \in CallsOf(s, "sendtoaddress") :
                    /\ i = 2
                    /\ log[1].method = "validateaddress"
                    /\ log[1].address = r.body.to_address
                    /\ log[i].address = r.body.to_address
                    /\ log[i].amount = r.body.amount
                    /\ SaidValid(log[1].reply)
                    /\ r.method = "POST" /\ r.body.decodes
               /\ (/\ r.pc # "received"
                   /\ \/ r.method # "POST"
                      \/ ~r.body.decodes
                      \/ Len(log) >= 1 /\ ~SaidValid(log[1].reply)) =>
                    /\ Answered(s)
                    /\ r.status = (IF r.method # "POST" THEN 405 ELSE 400)
                    /\ "error" \in DOMAIN r.response
                    /\ ~Member(r.response, "success", TRUE)
                    /\ CallsOf(s, "sendtoaddress") = {}
               /\ (r.method # "POST" \/ ~r.body.decodes) => log = <<>>

\* one send went through after a validation that said valid, and another
\* request was turned down because its validateaddress could not be posted
C19_Witness ==
    \E a \in Slots : \E b \in Slots :
        /\ reqs[a].route = "/api/send" /\ Answered(a)
        /\ Member(reqs[a].response, "success", TRUE)
        /\ CallsOf(a, "validateaddress") = {1} /\ CallsOf(a, "sendtoaddress") = {2}
        /\ reqs[b].route = "/api/send" /\ Answered(b)
        /\ Member(reqs[b].response, "error", "Invalid recipient address")
        /\ Len(reqs[b].rpc) = 1
        /\ reqs[b].rpc[1].reply.transport = "post failed"

\* the daemon answered sendtoaddress with a string result and no error
SaidSent(reply) ==
    /\ reply.transport = "ok" /\ reply.parses
    /\ reply.error = Null
    /\ reply.result.type = "string"

\* the request in slot s has called sendtoaddress and got a string result
Sent(s) == \E i \in CallsOf(s, "sendtoaddress") : SaidSent(reqs[s].rpc[i].reply)

\* C20 as stated: a request on /api/send calls sendtoaddress at most once;
\* its response has success = true and a txid member exactly when that call
\* returned a string result without error, and has success = false and no
\* txid member otherwise.
C20_TxidIffSent ==
    \A s \in Slots :
        reqs[s].route = "/api/send" =>
            /\ Cardinality(CallsOf(s, "sendtoaddress")) <= 1
            /\ Answered(s) =>
                 /\ (/\ Member(reqs[s].response, "success", TRUE)
                     /\ "txid" \in DOMAIN reqs[s].response) <=> Sent(s)
                 /\ ~Sent(s) =>
                      /\ Member(reqs[s].response, "success", FALSE)
                      /\ "txid" \notin DOMAIN reqs[s].response

\* C20, amended: a request on /api/send calls sendtoaddress at most once;
\* its response has success = true exactly when that call returned a string
\* result without error, and then the txid member is that string, left out
\* of the JSON when the string is empty (the field is omitempty).  In every
\* other case the response has an error member and no txid, with success =
\* false for a POST and no success member at all for any other method
\* (the body is then {"error": "POST only"}).
C20_SentOnce ==
    \A s \in Slots :
        reqs[s].route = "/api/send" =>
            LET r == reqs[s]
                sends == CallsOf(s, "sendtoaddress")
            IN /\ Cardinality(sends) <= 1
               /\ Answered(s) =>
                    /\ Member(r.response, "success", TRUE) <=> Sent(s)
                    /\ Sent(s) =>
                         LET txid == r.rpc[CHOOSE i \in sends : TRUE].reply.result.str
                         IN /\ r.status = 200
                            /\ "txid" \in DOMAIN r.response <=> txid # ""
                            /\ txid # "" => r.response["txid"] = txid
                            /\ "error" \notin DOMAIN r.response
                    /\ ~Sent(s) =>
                         /\ "txid" \notin DOMAIN r.response
                         /\ "error" \in DOMAIN r.response
                         /\ r.method = "POST" => Member(r.response, "success", FALSE)
                         /\ r.method # "POST" => "success" \notin DOMAIN r.response

\* one send was answered with the txid the daemon returned, and another,
\* for which the daemon returned the empty string, with success and no txid
C20_Witness ==
    \E a \in Slots : \E b \in Slots :
        /\ reqs[a].route = "/api/send" /\ Answered(a)
        /\ Member(reqs[a].response, "txid", "txid-9f2c")
        /\ reqs[b].route = "/api/send" /\ Answered(b)
        /\ Member(reqs[b].response, "success", TRUE)
        /\ "txid" \notin DOMAIN reqs[b].response

\* the routes whose handlers begin by turning down every method but POST
PostOnlyRoutes ==
    {"/api/send", "/api/import", "/api/import-mnemonic", "/api/new-wallet",
     "/api/new-address", "/api/getnewaddress", "/api/generate-address",
     "/api/validateaddress"}

\* C21: on each of the eight POST-only routes a request with a method other
\* than POST has no effect and is answered 405.  From the moment it is
\* received its JSON-RPC log is empty, no call of GenerateNewWallet or
\* GenerateWalletFromMnemonic runs for it and the map of sessions is empty;
\* once its handler has run it is answered, with status 405 and the body
\* {"error": "POST only"}.
C21_PostOnly ==
    \A s \in Slots :
        (reqs[s].route \in PostOnlyRoutes /\ reqs[s].method # "POST") =>
            /\ reqs[s].rpc = <<>>
            /\ calls[s] = Idle
            /\ wallets = {}
            /\ reqs[s].pc \in {"received", "done"}
            /\ Answered(s) =>
                 /\ reqs[s].status = 405
                 /\ reqs[s].response = PostOnly

\* a GET on /api/validateaddress and a PUT on /api/new-wallet were both
\* answered 405, and every POST-only route is among the routes served
C21_Witness ==
    /\ PostOnlyRoutes \subseteq Routes
    /\ \E a \in Slots : \E b \in Slots :
        /\ reqs[a].route = "/api/validateaddress" /\ reqs[a].method = "GET"
        /\ Answered(a) /\ reqs[a].status = 405
        /\ reqs[b].route = "/api/new-wallet" /\ reqs[b].method = "PUT"
        /\ Answered(b) /\ reqs[b].status = 405

\* the JSON-RPC calls the requests in flight have made so far
Exchanges == UNION {{reqs[s].rpc[i] : i \in 1..Len(reqs[s].rpc)} : s \in Slots}

\* the call failed: its request could not be sent, the body of the response
\* could not be read or parsed, or the response has an error member that is
\* not null
CallFailed(reply) ==
    \/ reply.transport \in {"no request", "post failed"}
    \/ reply.transport = "read failed"
    \/ ~reply.parses
    \/ reply.error # Null

\* C22: call returns an error and the nil result whenever the request could
\* not be sent, the body of the response could not be read or parsed, or
\* the response carries an error member that is not null; otherwise it
\* returns no error and the result member of the response.  So every call
\* made returned an error or a result, never both.
C22_ResultOrError ==
    \A x \in Exchanges :
        /\ CallFailed(x.reply) => x.returned.err # "nil" /\ x.returned.result = Null
        /\ ~CallFailed(x.reply) =>
              x.returned.err = "nil" /\ x.returned.result = x.reply.result
        /\ x.returned.err = "nil" \/ x.returned.result = Null

\* one call was answered with a result beside an error member and returned
\* the error alone, and another returned the string the daemon sent
C22_Witness ==
    \E x \in Exchanges : \E y \in Exchanges :
        /\ x.reply.error # Null /\ x.reply.result # Null
        /\ x.returned.err = "RPC error" /\ x.returned.result = Null
        /\ y.returned.err = "nil" /\ y.returned.result.type = "string"

\* the amount a member of "mine" counts as: 0 when it is missing or not a
\* number
Amount(member) == IF member.number THEN member.val ELSE 0

\* C23: for every getbalances reply with a "mine" object, the response on
\* /api/balance has total = trusted + untrusted_pending + immature (the
\* float64 sum, taken in that order, a member that is missing or not a
\* number counting as 0), confirmed = trusted, unconfirmed =
\* untrusted_pending, and an immature member equal to the immature amount
\* of the reply.
C23_BalanceSums ==
    \A s \in Slots :
        (/\ reqs[s].route = "/api/balance" /\ Answered(s)
         /\ ~CallFailed(reqs[s].rpc[1].reply)
         /\ reqs[s].rpc[1].reply.result.type = "object"
         /\ reqs[s].rpc[1].reply.result.mine.present) =>
            LET mine == reqs[s].rpc[1].reply.result.mine
                response == reqs[s].response
            IN /\ reqs[s].status = 200
               /\ DOMAIN response = {"total", "confirmed", "unconfirmed", "immature"}
               /\ response["total"] =
                     Round(Round(Amount(mine.trusted) + Amount(mine.untrusted_pending), 1)
                           + Amount(mine.immature), 1)
               /\ response["confirmed"] = Amount(mine.trusted)
               /\ response["unconfirmed"] = Amount(mine.untrusted_pending)
               /\ response["immature"] = Amount(mine.immature)

\* the value of WALLET_WIF that os.Getenv gives: the empty string when the
\* variable is not set
WalletWIF == IF main.WALLET_WIF = <<>> THEN "" ELSE main.WALLET_WIF[1]

\* C24: at startup the server makes at most one JSON-RPC request, an
\* importprivkey of the value of WALLET_WIF, and makes it exactly when
\* WALLET_WIF is set and not empty; with WALLET_WIF unset or empty nothing
\* is asked of the daemon before the server serves.  No request is received
\* before the server is started.  Whatever the import returned, main goes
\* on to StartServer: the process does not end in InitializeWalletFromEnv,
\* and once InitializeWalletFromEnv has returned StartServer is called (the
\* server then serves, or the process ends because it could not listen).
C24_StartupImport ==
    /\ [](/\ Len(main.rpc) <= 1
          /\ \A i \in 1..Len(main.rpc) :
               /\ main.rpc[i].method = "importprivkey"
               /\ WalletWIF # ""
               /\ main.rpc[i].wif = WalletWIF
          /\ main.pc = "start" => main.rpc = <<>>
          /\ (main.pc # "start" /\ WalletWIF # "") => Len(main.rpc) = 1
          /\ main.pc # "serving" => \A s \in Slots : reqs[s] = NoRequest)
    /\ [][main.pc = "start" => main'.pc \in {"start", "initialized"}]_vars
    /\ [][main'.pc \in {"serving", "exited"} =>
             main.pc \in {"initialized", main'.pc} /\ main'.rpc = main.rpc]_vars
    /\ (main.pc = "initialized") ~> (main.pc \in {"serving", "exited"})

\* the import of WALLET_WIF failed, the server serves all the same, and it
\* has answered a request for the balance
C24_Witness ==
    /\ main.pc = "serving"
    /\ Len(main.rpc) = 1
    /\ main.rpc[1].returned.err # "nil"
    /\ \E s \in Slots :
         /\ reqs[s].route = "/api/balance" /\ Answered(s)
         /\ reqs[s].status = 200

=============================================================================
